---------------------------- MODULE Spec2Model ----------------------------
(***************************************************************************)
(* Model of the meeting-hour summary tooling of outlook_automation         *)
(* (scripts_using_python): the time-window helpers, the event filter, the  *)
(* aggregator, the full-hour detector and the ignore store.                *)
(*                                                                         *)
(* A datetime is a record [t |-> whole seconds of wall-clock time since a  *)
(* Monday 00:00:00, us |-> microseconds].  Python compares and subtracts   *)
(* aware datetimes that share one tzinfo object on their wall-clock        *)
(* fields, and datetime + timedelta is wall-clock arithmetic, so the       *)
(* model is the wall clock of the configured timezone.                     *)
(***************************************************************************)
EXTENDS Integers, Sequences, FiniteSets, TLC

VARIABLES reference,    \* the reference instant handed to the time helpers
          events,       \* the caller's event list (Graph event dictionaries)
          patterns,     \* the ignore patterns (regular expressions)
          window,       \* <<start_date, end_date>> of the call
          ignored_ids,  \* the identities handed to the detector
          max_count,    \* the detector's max_count
          environ,      \* os.environ as Config reads it
          config_file,  \* the config.json that Config loads
          pages,        \* the responses of the Graph server, in request order
          template,     \* the template handed to render_template
          kwargs,       \* its keyword arguments, in call order
          loop,         \* get_daily_meeting_hours: its position and locals
          clock,        \* what datetime.now() returns
          store,        \* ignored_full_hour_appointments.txt
          call,         \* the last call: its name, arguments and result
          prev,         \* the call before it
          pc,           \* main: "idle", or "prompting" inside the dialog loop
          queue,        \* main: the full-hour meetings still to be shown
          never,        \* the identities answered NeverAskAgain and saved
          runs          \* how often main has been started

vars == <<reference, events, patterns, window, ignored_ids, max_count,
          environ, config_file, pages, template, kwargs, loop,
          clock, store, call, prev, pc, queue, never, runs>>

\* the arguments that a helper is called with
inputs == <<reference, events, patterns, window, ignored_ids, max_count,
            environ, config_file, pages, template, kwargs>>

\* the state of main's dialog loop
session == <<pc, queue, never, runs>>

----------------------------------------------------------------------------
(* Bounds of the model *)

\* reference instants range over the days 0 .. MaxDay (day 0 is a Monday)
MaxDay == 20

\* the longest event list handed to get_meeting_hours_summary
MaxSummaryEvents == 3

\* the longest event list handed to get_full_hour_meetings
MaxScanEvents == 3

\* max_count ranges over 0 .. MaxCount
MaxCount == 2

\* the longest event list that main fetches
MaxMainEvents == 2

\* how often main is started
MaxRuns == 2

\* working_day_count ranges over 0 .. MaxWorkingDays
MaxWorkingDays == 5

\* how many entries are appended to the ignore store
MaxSaves == 2

\* how many characters the text reader decodes at a time (8192 bytes in
\* CPython's io layer), scaled down
ChunkSize == 4

----------------------------------------------------------------------------
(* datetime and timedelta *)

SecondsPerDay == 24 * 3600

DT(t, us) == [t |-> t, us |-> us]

\* day d at h:m:s.us
At(d, h, m, s, us) == DT(d * SecondsPerDay + h * 3600 + m * 60 + s, us)

DayOf(dt) == dt.t \div SecondsPerDay

\* datetime.weekday(): 0 = Monday .. 6 = Sunday
Weekday(dt) == DayOf(dt) % 7

Hour(dt) == (dt.t % SecondsPerDay) \div 3600

Minute(dt) == (dt.t % 3600) \div 60

Second(dt) == dt.t % 60

\* dt + timedelta(days=n)
AddDays(dt, n) == DT(dt.t + n * SecondsPerDay, dt.us)

\* dt.replace(hour=h, minute=m, second=s, microsecond=us)
Replace(dt, h, m, s, us) == At(DayOf(dt), h, m, s, us)

\* a < b and a <= b on datetimes
Before(a, b) == a.t < b.t \/ (a.t = b.t /\ a.us < b.us)

NotAfter(a, b) == a = b \/ Before(a, b)

\* b - a as a timedelta, normalised like Python's: 0 <= us < 1000000
Minus(b, a) ==
    IF b.us >= a.us
    THEN [seconds |-> b.t - a.t, us |-> b.us - a.us]
    ELSE [seconds |-> b.t - a.t - 1, us |-> b.us + 1000000 - a.us]

----------------------------------------------------------------------------
(* utils.py: get_weekday_bounds *)

\* mutant: a weekend rolls back to the Monday of the week just ended
days_to_monday_rolls_back(day_of_week) == 0 - day_of_week

days_to_monday(day_of_week) ==
    IF day_of_week = 6 THEN 1
    ELSE IF day_of_week = 5 THEN 2
    ELSE 0 - day_of_week

\* mutant: monday keeps the reference's time of day
get_weekday_bounds_keeps_time(reference_date) ==
    LET monday == AddDays(reference_date,
                          days_to_monday(Weekday(reference_date)))
        friday == Replace(AddDays(monday, 4), 23, 59, 59, 999999)
    IN  <<monday, friday>>

get_weekday_bounds(reference_date) ==
    LET monday == Replace(AddDays(reference_date,
                                  days_to_monday(Weekday(reference_date))),
                          0, 0, 0, 0)
        friday == Replace(AddDays(monday, 4), 23, 59, 59, 999999)
    IN  <<monday, friday>>

(* utils.py: get_next_working_day *)

\* mutant: the day after the reference, weekend or not
get_next_working_day_any_day(reference_date) ==
    Replace(AddDays(reference_date, 1), 0, 0, 0, 0)

get_next_working_day(reference_date) ==
    LET next_day == Replace(AddDays(reference_date, 1), 0, 0, 0, 0)
    IN  IF Weekday(next_day) = 5 THEN AddDays(next_day, 2)
        ELSE IF Weekday(next_day) = 6 THEN AddDays(next_day, 1)
        ELSE next_day

----------------------------------------------------------------------------
(* Text: a str is a sequence of one-character strings *)

Lower(c) ==
    CASE c = "L" -> "l"
      [] c = "U" -> "u"
      [] c = "A" -> "a"
      [] OTHER -> c

Drop(s, n) == SubSeq(s, n + 1, Len(s))

\* str.strip(): leading and trailing whitespace removed
IsSpace(c) == c \in {" ", "\n", "\t", "\r"}

RECURSIVE LStrip(_)
LStrip(s) == IF s # <<>> /\ IsSpace(s[1]) THEN LStrip(Tail(s)) ELSE s

RECURSIVE RStrip(_)
RStrip(s) ==
    IF s # <<>> /\ IsSpace(s[Len(s)])
    THEN RStrip(SubSeq(s, 1, Len(s) - 1))
    ELSE s

Strip(s) == RStrip(LStrip(s))

----------------------------------------------------------------------------
(* re.search(pattern, subject, re.IGNORECASE) on the patterns the model    *)
(* uses: literals, ".", "x*" and a leading "^".  re.compile raises         *)
(* re.error for an unterminated "[" and for a "*" with nothing to repeat.  *)

re_error(pattern) ==
    \/ \E i \in 1..Len(pattern) : pattern[i] = "["
    \/ pattern # <<>> /\ pattern[1] = "*"
    \/ Len(pattern) >= 2 /\ pattern[1] = "^" /\ pattern[2] = "*"

MatchChar(p, c) == p = "." \/ Lower(p) = Lower(c)

RECURSIVE MatchHere(_, _)
MatchHere(re, text) ==
    IF re = <<>> THEN TRUE
    ELSE IF Len(re) >= 2 /\ re[2] = "*"
    THEN \E k \in 0..Len(text) :
            /\ \A i \in 1..k : MatchChar(re[1], text[i])
            /\ MatchHere(Drop(re, 2), Drop(text, k))
    ELSE /\ text # <<>>
         /\ MatchChar(re[1], text[1])
         /\ MatchHere(Tail(re), Tail(text))

re_search(pattern, subject) ==
    IF pattern # <<>> /\ pattern[1] = "^"
    THEN MatchHere(Tail(pattern), subject)
    ELSE \E k \in 0..Len(subject) : MatchHere(pattern, Drop(subject, k))

----------------------------------------------------------------------------
(* utils.py: should_ignore_appointment.  The loop returns True at the      *)
(* first pattern that matches; a pattern that raises re.error is skipped.  *)

\* mutant: the first pattern that raises re.error ends the loop
RECURSIVE should_ignore_appointment_aborts(_, _)
should_ignore_appointment_aborts(subject, pats) ==
    IF pats = <<>> THEN FALSE
    ELSE IF re_error(pats[1]) THEN FALSE
    ELSE IF re_search(pats[1], subject) THEN TRUE
    ELSE should_ignore_appointment_aborts(subject, Tail(pats))

RECURSIVE should_ignore_appointment(_, _)
should_ignore_appointment(subject, pats) ==
    IF pats = <<>> THEN FALSE
    ELSE IF re_error(pats[1])
    THEN should_ignore_appointment(subject, Tail(pats))
    ELSE IF re_search(pats[1], subject) THEN TRUE
    ELSE should_ignore_appointment(subject, Tail(pats))

----------------------------------------------------------------------------
(* calendar.py: filter_event.  None is the result of an included event.    *)

None == "None"

\* mutant: the all-day check comes before the pattern check
filter_event_all_day_first(event, ignore_patterns) ==
    IF event.isAllDay THEN "All-day event"
    ELSE IF should_ignore_appointment(event.subject, ignore_patterns)
    THEN "Matches ignore pattern"
    ELSE IF event.isCancelled THEN "Meeting cancelled"
    ELSE IF event.responseStatus.response = "declined" THEN "Meeting declined"
    ELSE IF event.sensitivity = "private" THEN "Private event"
    ELSE IF event.showAs = "oof" THEN "Out of Office"
    ELSE None

filter_event(event, ignore_patterns) ==
    IF should_ignore_appointment(event.subject, ignore_patterns)
    THEN "Matches ignore pattern"
    ELSE IF event.isAllDay THEN "All-day event"
    ELSE IF event.isCancelled THEN "Meeting cancelled"
    ELSE IF event.responseStatus.response = "declined" THEN "Meeting declined"
    ELSE IF event.sensitivity = "private" THEN "Private event"
    ELSE IF event.showAs = "oof" THEN "Out of Office"
    ELSE None

----------------------------------------------------------------------------
(* utils.py: from_graph_datetime.  A Graph DateTimeTimeZone is             *)
(* [dateTime |-> [t, frac], timeZone]: t the whole seconds of the          *)
(* "YYYY-MM-DDTHH:MM:SS" part and frac the digits after the ".".  The      *)
(* configured timezone is Europe/Copenhagen at UTC+1 (the model's days are *)
(* winter days, as in the tests).                                          *)

ValidZones == {"UTC", "Europe/Copenhagen"}

utcoffset(zone) == IF zone = "Europe/Copenhagen" THEN 3600 ELSE 0

from_graph_datetime(dt_tz_obj) ==
    LET seconds == dt_tz_obj.dateTime.t      \* split('.')[0]: frac is dropped
        tz_string == dt_tz_obj.timeZone
        source == IF tz_string = "UTC" THEN "UTC"
                  ELSE IF tz_string \in ValidZones THEN tz_string
                  ELSE "UTC"                 \* ZoneInfo raised: fall back
    IN  DT(seconds - utcoffset(source) + utcoffset("Europe/Copenhagen"), 0)

----------------------------------------------------------------------------
(* utils.py: get_appointment_duration, in hundredths of an hour:           *)
(* round(total_seconds / 3600, 2).  Both arguments come from               *)
(* from_graph_datetime, so they are whole seconds.  Exact halves (a        *)
(* remainder of 18 seconds) are decided in Python by the binary value of   *)
(* the quotient; the events of the model last whole minutes or 10         *)
(* seconds, where no half arises.                                          *)

Round36(seconds) ==
    IF seconds >= 0 THEN (seconds + 18) \div 36
    ELSE 0 - ((18 - seconds) \div 36)

\* mutant: an event that ends before it starts lasts 0 hours
get_appointment_duration_clamped(start, end) ==
    IF Minus(end, start).seconds < 0 THEN 0
    ELSE Round36(Minus(end, start).seconds)

get_appointment_duration(start, end) == Round36(Minus(end, start).seconds)

----------------------------------------------------------------------------
(* calendar.py: get_meeting_hours_summary.  The loop body for events[i],   *)
(* on the running <<total_hours, appointment_count>>; hours are in         *)
(* hundredths, so round(total_hours, 2) keeps the total.                   *)

\* mutant: the end of the period is inclusive
InPeriod_closed(event_start, start_date, end_date) ==
    NotAfter(start_date, event_start) /\ NotAfter(event_start, end_date)

InPeriod(event_start, start_date, end_date) ==
    NotAfter(start_date, event_start) /\ Before(event_start, end_date)

RECURSIVE SummaryLoop(_, _, _, _, _, _, _)
SummaryLoop(evs, i, start_date, end_date, pats, total_hours, count) ==
    IF i > Len(evs) THEN [hours |-> total_hours, count |-> count]
    ELSE LET event == evs[i]
             event_start == from_graph_datetime(event.start)
             event_end == from_graph_datetime(event.end)
             duration == get_appointment_duration(event_start, event_end)
         IN  IF InPeriod(event_start, start_date, end_date)
                /\ filter_event(event, pats) = None
             THEN SummaryLoop(evs, i + 1, start_date, end_date, pats,
                              total_hours + duration, count + 1)
             ELSE SummaryLoop(evs, i + 1, start_date, end_date, pats,
                              total_hours, count)

\* mutant: an excluded event is still added and counted (the continue is lost)
RECURSIVE SummaryLoop_no_skip(_, _, _, _, _, _, _)
SummaryLoop_no_skip(evs, i, start_date, end_date, pats, total_hours, count) ==
    IF i > Len(evs) THEN [hours |-> total_hours, count |-> count]
    ELSE LET event_start == from_graph_datetime(evs[i].start)
             event_end == from_graph_datetime(evs[i].end)
             duration == get_appointment_duration(event_start, event_end)
         IN  IF InPeriod(event_start, start_date, end_date)
             THEN SummaryLoop_no_skip(evs, i + 1, start_date, end_date, pats,
                                      total_hours + duration, count + 1)
             ELSE SummaryLoop_no_skip(evs, i + 1, start_date, end_date, pats,
                                      total_hours, count)

get_meeting_hours_summary_no_skip(evs, start_date, end_date, pats) ==
    SummaryLoop_no_skip(evs, 1, start_date, end_date, pats, 0, 0)

get_meeting_hours_summary(evs, start_date, end_date, pats) ==
    SummaryLoop(evs, 1, start_date, end_date, pats, 0, 0)

----------------------------------------------------------------------------
(* show_meeting_summary.py: get_daily_meeting_hours *)

\* strftime("%a")
DayName(dt) ==
    <<"Mon", "Tue", "Wed", "Thu", "Fri", "Sat", "Sun">>[Weekday(dt) + 1]

\* one entry of daily_hours
DailyEntry(evs, current_date, pats) ==
    LET day_start == Replace(current_date, 0, 0, 0, 0)
        day_end == Replace(current_date, 23, 59, 59, 999999)
        result == get_meeting_hours_summary(evs, day_start, day_end, pats)
    IN  [date |-> day_start, hours |-> result.hours, count |-> result.count,
         day_of_week |-> DayName(day_start)]

\* mutant: a Saturday or Sunday uses up one of the working_day_count slots
RECURSIVE DailyLoop_weekend_counts(_, _, _, _, _, _)
DailyLoop_weekend_counts(evs, current_date, working_days_found, working_day_count, pats, daily_hours) ==
    IF ~(working_days_found < working_day_count) THEN daily_hours
    ELSE IF Weekday(current_date) \notin {5, 6}
         THEN DailyLoop_weekend_counts(evs, AddDays(current_date, 1),
                  working_days_found + 1, working_day_count, pats,
                  Append(daily_hours, DailyEntry(evs, current_date, pats)))
         ELSE DailyLoop_weekend_counts(evs, AddDays(current_date, 1),
                  working_days_found + 1, working_day_count, pats, daily_hours)

\* mutant: only the Saturday is skipped
RECURSIVE DailyLoop_sunday_works(_, _, _, _, _, _)
DailyLoop_sunday_works(evs, current_date, working_days_found, working_day_count, pats, daily_hours) ==
    IF ~(working_days_found < working_day_count) THEN daily_hours
    ELSE IF Weekday(current_date) # 5
         THEN DailyLoop_sunday_works(evs, AddDays(current_date, 1),
                  working_days_found + 1, working_day_count, pats,
                  Append(daily_hours, DailyEntry(evs, current_date, pats)))
         ELSE DailyLoop_sunday_works(evs, AddDays(current_date, 1),
                  working_days_found, working_day_count, pats, daily_hours)

\* the while loop, from the state (current_date, working_days_found,
\* daily_hours) on
RECURSIVE DailyLoop(_, _, _, _, _, _)
DailyLoop(evs, current_date, working_days_found, working_day_count, pats, daily_hours) ==
    IF ~(working_days_found < working_day_count) THEN daily_hours
    ELSE IF Weekday(current_date) \notin {5, 6}
         THEN DailyLoop(evs, AddDays(current_date, 1),
                  working_days_found + 1, working_day_count, pats,
                  Append(daily_hours, DailyEntry(evs, current_date, pats)))
         ELSE DailyLoop(evs, AddDays(current_date, 1),
                  working_days_found, working_day_count, pats, daily_hours)

get_daily_meeting_hours(evs, start_date, working_day_count, pats) ==
    DailyLoop(evs, start_date, 0, working_day_count, pats, <<>>)

\* mutant: a Saturday or Sunday is counted as a working day found
DailyStep_weekend_counts(evs, frame, pats) ==
    IF Weekday(frame.current_date) \notin {5, 6}
    THEN [frame EXCEPT
             !.daily_hours = Append(@, DailyEntry(evs, frame.current_date, pats)),
             !.working_days_found = @ + 1,
             !.current_date = AddDays(@, 1)]
    ELSE [frame EXCEPT !.working_days_found = @ + 1,
                       !.current_date = AddDays(@, 1)]

\* one iteration of the while loop on the locals of frame
DailyStep(evs, frame, pats) ==
    IF Weekday(frame.current_date) \notin {5, 6}
    THEN [frame EXCEPT
             !.daily_hours = Append(@, DailyEntry(evs, frame.current_date, pats)),
             !.working_days_found = @ + 1,
             !.current_date = AddDays(@, 1)]
    ELSE [frame EXCEPT !.current_date = AddDays(@, 1)]

----------------------------------------------------------------------------
(* show_meeting_summary.py: main, lines 467-481.  The periods main works   *)
(* with, from now = datetime.now(tz).                                      *)

\* max() of two datetimes
MaxDT(a, b) == IF Before(a, b) THEN b ELSE a

\* mutant: next week is taken from two weeks after this week's Monday
main_periods_skips_a_week(now) ==
    LET today == Replace(now, 0, 0, 0, 0)
        next_working_day == get_next_working_day(now)
        this_week_bounds == get_weekday_bounds(now)
        next_week_bounds == get_weekday_bounds(AddDays(this_week_bounds[1], 14))
        fourteen_days_later == AddDays(today, 14)
    IN  [today |-> today,
         next_working_day |-> next_working_day,
         day_after_next |-> get_next_working_day(next_working_day),
         this_week_bounds |-> this_week_bounds,
         next_week_bounds |-> next_week_bounds,
         fetch_start |-> today,
         fourteen_days_later |-> fourteen_days_later,
         fetch_end |-> MaxDT(next_week_bounds[2], fourteen_days_later)]

main_periods(now) ==
    LET today == Replace(now, 0, 0, 0, 0)
        next_working_day == get_next_working_day(now)
        day_after_next == get_next_working_day(next_working_day)
        this_week_bounds == get_weekday_bounds(now)
        next_week_monday == AddDays(this_week_bounds[1], 7)
        next_week_bounds == get_weekday_bounds(next_week_monday)
        fetch_start == today
        fourteen_days_later == AddDays(today, 14)
        fetch_end == MaxDT(next_week_bounds[2], fourteen_days_later)
    IN  [today |-> today,
         next_working_day |-> next_working_day,
         day_after_next |-> day_after_next,
         this_week_bounds |-> this_week_bounds,
         next_week_bounds |-> next_week_bounds,
         fetch_start |-> fetch_start,
         fourteen_days_later |-> fourteen_days_later,
         fetch_end |-> fetch_end]

\* the working_day_count main passes at line 525
MainWorkingDays == 5

\* lines 514-525: the four period summaries and the daily summaries
main_summaries(evs, now, pats) ==
    LET p == main_periods(now)
    IN  [today_hours |->
             get_meeting_hours_summary(evs, p.today, p.next_working_day, pats),
         next_day_hours |->
             get_meeting_hours_summary(evs, p.next_working_day,
                                       p.day_after_next, pats),
         this_week_hours |->
             get_meeting_hours_summary(evs, p.this_week_bounds[1],
                                       p.this_week_bounds[2], pats),
         next_week_hours |->
             get_meeting_hours_summary(evs, p.next_week_bounds[1],
                                       p.next_week_bounds[2], pats),
         daily_hours |->
             get_daily_meeting_hours(evs, p.today, MainWorkingDays, pats)]

----------------------------------------------------------------------------
(* show_meeting_summary.py: get_full_hour_meetings.  The list it builds    *)
(* holds references to the caller's event dictionaries: the model holds    *)
(* their positions in the event list.                                      *)

\* mutant: the id is preferred to the iCalUId
EventId_id_first(event) == IF event.id # <<>> THEN event.id ELSE event.iCalUId

\* event.get("iCalUId") or event.get("id", "")
EventId(event) == IF event.iCalUId # <<>> THEN event.iCalUId ELSE event.id

Contains(list, x) == \E k \in 1..Len(list) : list[k] = x

NoneSkipped ==
    [Ignored |-> 0, AllDay |-> 0, Private |-> 0, OutOfOffice |-> 0,
     AlreadyStarted |-> 0, NotFullHour |-> 0, Cancelled |-> 0,
     Declined |-> 0, PreviouslyIgnored |-> 0]

\* the key of skipped_reasons that an exclusion reason increments
ReasonKey(exclusion_reason) ==
    CASE exclusion_reason = "Matches ignore pattern" -> "Ignored"
      [] exclusion_reason = "All-day event" -> "AllDay"
      [] exclusion_reason = "Private event" -> "Private"
      [] exclusion_reason = "Out of Office" -> "OutOfOffice"
      [] exclusion_reason = "Meeting cancelled" -> "Cancelled"
      [] exclusion_reason = "Meeting declined" -> "Declined"

Bump(skipped, key) == [skipped EXCEPT ![key] = @ + 1]

IsFullHour(event_start) == Minute(event_start) = 0 /\ Second(event_start) = 0

\* mutant: an identity is never looked up in ignored_ids
IsPreviouslyIgnored_never(event_id, ign) == FALSE

IsPreviouslyIgnored(event_id, ign) == event_id # <<>> /\ Contains(ign, event_id)

\* mutant: the full-hour test comes before the already-started test
Outcome_full_hour_first(event, event_start, pats, ign, now) ==
    LET exclusion_reason == filter_event(event, pats)
    IN  IF exclusion_reason # None THEN ReasonKey(exclusion_reason)
        ELSE IF ~IsFullHour(event_start) THEN "NotFullHour"
        ELSE IF Before(event_start, now) THEN "AlreadyStarted"
        ELSE IF IsPreviouslyIgnored(EventId(event), ign) THEN "PreviouslyIgnored"
        ELSE "append"

\* what the loop body does with an event in the date range: the key of
\* skipped_reasons it increments, or "append"
Outcome(event, event_start, pats, ign, now) ==
    LET exclusion_reason == filter_event(event, pats)
    IN  IF exclusion_reason # None THEN ReasonKey(exclusion_reason)
        ELSE IF Before(event_start, now) THEN "AlreadyStarted"
        ELSE IF IsFullHour(event_start)
        THEN IF IsPreviouslyIgnored(EventId(event), ign)
             THEN "PreviouslyIgnored"
             ELSE "append"
        ELSE "NotFullHour"

RECURSIVE FullHourLoop(_, _, _, _, _, _, _, _, _)
FullHourLoop(evs, i, start_date, end_date, pats, ign, now, found, skipped) ==
    IF i > Len(evs) THEN [full_hour_meetings |-> found, skipped_reasons |-> skipped]
    ELSE LET event_start == from_graph_datetime(evs[i].start)
         IN  IF InPeriod(event_start, start_date, end_date)
             THEN LET o == Outcome(evs[i], event_start, pats, ign, now)
                  IN  IF o = "append"
                      THEN FullHourLoop(evs, i + 1, start_date, end_date, pats,
                                        ign, now, Append(found, i), skipped)
                      ELSE FullHourLoop(evs, i + 1, start_date, end_date, pats,
                                        ign, now, found, Bump(skipped, o))
             ELSE FullHourLoop(evs, i + 1, start_date, end_date, pats,
                               ign, now, found, skipped)

\* list.sort(key=...) is stable: an element goes behind every element whose
\* key is not greater than its own
SortKey(evs, i) == from_graph_datetime(evs[i].start)

RECURSIVE InsertByStart(_, _, _)
InsertByStart(evs, sorted, x) ==
    IF sorted = <<>> THEN <<x>>
    ELSE IF Before(SortKey(evs, x), SortKey(evs, sorted[1]))
    THEN <<x>> \o sorted
    ELSE <<sorted[1]>> \o InsertByStart(evs, Tail(sorted), x)

RECURSIVE SortFrom(_, _, _, _)
SortFrom(evs, list, k, sorted) ==
    IF k > Len(list) THEN sorted
    ELSE SortFrom(evs, list, k + 1, InsertByStart(evs, sorted, list[k]))

SortByStart(evs, list) == SortFrom(evs, list, 1, <<>>)

\* list[:max_count], max_count >= 0
Slice(list, n) == SubSeq(list, 1, IF n < Len(list) THEN n ELSE Len(list))

\* mutant: the list is cut to max_count before it is sorted
SortAndCut_cut_first(evs, found, n) == SortByStart(evs, Slice(found, n))

SortAndCut(evs, found, n) == Slice(SortByStart(evs, found), n)

get_full_hour_meetings(evs, start_date, end_date, pats, ign, n, now) ==
    LET scan == FullHourLoop(evs, 1, start_date, end_date, pats, ign, now,
                             <<>>, NoneSkipped)
    IN  [full_hour_meetings |->
            SortAndCut(evs, scan.full_hour_meetings, n),
         skipped_reasons |-> scan.skipped_reasons,
         \* the list as the loop left it, before lines 157-158
         appended |-> scan.full_hour_meetings]

----------------------------------------------------------------------------
(* strftime.  The date part is written as the two digits of the day of the *)
(* model's calendar, the time part as Python writes it.                    *)

Digit(n) == <<"0", "1", "2", "3", "4", "5", "6", "7", "8", "9">>[n + 1]

TwoDigits(n) == <<Digit((n \div 10) % 10), Digit(n % 10)>>

\* strftime("%Y-%m-%d %H:%M")
StrfMinutes(dt) ==
    TwoDigits(DayOf(dt)) \o <<" ">> \o TwoDigits(Hour(dt)) \o <<":">>
        \o TwoDigits(Minute(dt))

\* strftime("%Y-%m-%d %H:%M:%S")
StrfSeconds(dt) == StrfMinutes(dt) \o <<":">> \o TwoDigits(Second(dt))

----------------------------------------------------------------------------
(* utils.py: the ignore store.  The file is [exists, text]: text is its    *)
(* content, character by character.                                        *)

\* "for line in f": the text cut behind every "\n"; a last line without
\* "\n" is a line too
SplitLines(text) ==
    LET breaks == { i \in 1..Len(text) : text[i] = "\n" }
        \* the position of the k-th "\n"; 0 for k = 0
        BreakAt(k) ==
            IF k = 0 THEN 0
            ELSE CHOOSE b \in breaks :
                    Cardinality({ c \in breaks : c <= b }) = k
        whole == Cardinality(breaks)
        last == BreakAt(whole)
    IN  [k \in 1..whole |-> SubSeq(text, BreakAt(k - 1) + 1, BreakAt(k))]
        \o (IF last < Len(text)
            THEN <<SubSeq(text, last + 1, Len(text))>>
            ELSE <<>>)

\* the loop of load_ignored_appointment_ids and load_ignore_patterns
RECURSIVE KeptLines(_)
KeptLines(lines) ==
    IF lines = <<>> THEN <<>>
    ELSE LET line == Strip(lines[1])
         IN  IF line # <<>> /\ line[1] # "#"
             THEN <<line>> \o KeptLines(Tail(lines))
             ELSE KeptLines(Tail(lines))

\* a byte that is not valid UTF-8
Undecodable == "xFF"

\* open(..., encoding='utf-8') decodes the file one chunk at a time and
\* raises UnicodeDecodeError when it reads the first chunk that holds an
\* undecodable byte: the text delivered before that
DecodedText(text) ==
    LET bad == { i \in 1..Len(text) : text[i] = Undecodable }
    IN  IF bad = {} THEN text
        ELSE LET first == CHOOSE i \in bad : \A j \in bad : i <= j
                 good == ((first - 1) \div ChunkSize) * ChunkSize
             IN  SubSeq(text, 1, good)

\* the lines "for line in f" yields before it ends or raises: when it
\* raises, a line whose "\n" was not yet decoded is never yielded
LinesRead(text) ==
    LET decoded == DecodedText(text)
        lines == SplitLines(decoded)
    IN  IF decoded = text THEN lines
        ELSE SelectSeq(lines, LAMBDA line : line[Len(line)] = "\n")

\* the except clause only logs: what was appended before the exception is
\* returned
load_ignored_appointment_ids(file) ==
    IF file.exists THEN KeptLines(LinesRead(file.text)) ELSE <<>>

\* the same loop over ignore_appointments.txt
load_ignore_patterns(file) ==
    IF file.exists THEN KeptLines(LinesRead(file.text)) ELSE <<>>

\* the header that is written when the file does not exist: six lines that
\* start with "#" (their wording is shortened to one letter)
Header ==
    <<"#", " ", "I", "\n", "#", " ", "T", "\n", "#", " ", "E", "\n",
      "#", " ", "L", "\n", "#", " ", "Y", "\n", "#", "\n">>

AddedPrefix == <<"#", " ", "A", "d", "d", "e", "d", ":", " ">>

SubjectPrefix == <<" ", "|", " ", "S", "u", "b", "j", "e", "c", "t", ":", " ">>

StartPrefix == <<" ", "|", " ", "S", "t", "a", "r", "t", ":", " ">>

\* mutant: the file is rewritten with the new entry instead of appended to
save_ignored_appointment_rewrites(file, identifier, subject, start_time, now) ==
    [exists |-> TRUE,
     text |-> Header \o AddedPrefix \o StrfSeconds(now) \o SubjectPrefix
              \o subject \o StartPrefix \o StrfMinutes(start_time) \o <<"\n">>
              \o identifier \o <<"\n">>]

\* mutant: an identity that load already returns is not appended again
save_ignored_appointment_dedups(file, identifier, subject, start_time, now) ==
    IF Contains(load_ignored_appointment_ids(file), identifier) THEN file
    ELSE [exists |-> TRUE,
          text |-> (IF file.exists THEN file.text ELSE Header)
                   \o AddedPrefix \o StrfSeconds(now) \o SubjectPrefix
                   \o subject \o StartPrefix \o StrfMinutes(start_time)
                   \o <<"\n">> \o identifier \o <<"\n">>]

\* mutant: the entry is written twice
save_ignored_appointment_twice(file, identifier, subject, start_time, now) ==
    LET entry == AddedPrefix \o StrfSeconds(now) \o SubjectPrefix
                 \o subject \o StartPrefix \o StrfMinutes(start_time)
                 \o <<"\n">> \o identifier \o <<"\n">>
    IN  [exists |-> TRUE,
         text |-> (IF file.exists THEN file.text ELSE Header)
                  \o entry \o entry]

\* now is what datetime.now() returns at line 269
save_ignored_appointment(file, identifier, subject, start_time, now) ==
    LET before == IF file.exists THEN file.text ELSE Header
        comment == AddedPrefix \o StrfSeconds(now) \o SubjectPrefix
                   \o subject \o StartPrefix \o StrfMinutes(start_time)
                   \o <<"\n">>
    IN  [exists |-> TRUE,
         text |-> before \o comment \o identifier \o <<"\n">>]

----------------------------------------------------------------------------
(* Graph event dictionaries.  A key that is missing reads as its default:  *)
(* "" for subject, iCalUId and id.                                         *)

GraphDT(t, frac, zone) == [dateTime |-> [t |-> t, frac |-> frac], timeZone |-> zone]

\* h:m:s of day 0, written in the configured timezone
Local(h, m, s) == GraphDT(h * 3600 + m * 60 + s, 0, "Europe/Copenhagen")

Event(subject, isAllDay, isCancelled, response, sensitivity, showAs, start, end, iCalUId, id) ==
    [subject |-> subject, isAllDay |-> isAllDay, isCancelled |-> isCancelled,
     responseStatus |-> [response |-> response], sensitivity |-> sensitivity,
     showAs |-> showAs, start |-> start, end |-> end,
     iCalUId |-> iCalUId, id |-> id]

\* an accepted, normal, busy meeting
Meeting(subject, start, end, iCalUId, id) ==
    Event(subject, FALSE, FALSE, "accepted", "normal", "busy",
          start, end, iCalUId, id)

NoCall == [op |-> "none"]

\* ignored_full_hour_appointments.txt does not exist
NoFile == [exists |-> FALSE, text |-> <<>>]

\* main is not running
NoSession == pc = "idle" /\ queue = <<>> /\ never = {} /\ runs = 0

----------------------------------------------------------------------------
(* config.py: Config.  A value of the configuration is a str, a list of    *)
(* str or None.                                                            *)

\* Python's None among these values: no str has a component of more than
\* one character
NoValue == <<None>>

DEFAULTS ==
    [tenant_id |-> <<"c", "o", "m", "m", "o", "n">>,
     client_id |-> NoValue,
     scopes |-> << <<"C", "a", "l", "e", "n", "d", "a", "r", "s", ".",
                     "R", "e", "a", "d", "W", "r", "i", "t", "e">>,
                   <<"M", "a", "i", "l", ".",
                     "R", "e", "a", "d", "W", "r", "i", "t", "e">>,
                   <<"U", "s", "e", "r", ".", "R", "e", "a", "d">> >>,
     timezone |-> <<"E", "u", "r", "o", "p", "e", "/",
                    "C", "o", "p", "e", "n", "h", "a", "g", "e", "n">>,
     api_version |-> <<"v", "1", ".", "0">>,
     base_url |-> <<"h", "t", "t", "p", "s", ":", "/", "/",
                    "g", "r", "a", "p", "h", ".",
                    "m", "i", "c", "r", "o", "s", "o", "f", "t", ".",
                    "c", "o", "m">>]

env_mappings ==
    [GRAPH_TENANT_ID |-> "tenant_id",
     GRAPH_CLIENT_ID |-> "client_id",
     GRAPH_SCOPES |-> "scopes",
     TIMEZONE |-> "timezone"]

\* dict.update: the keys of other are added or overwritten
update(config, other) ==
    [k \in DOMAIN config \cup DOMAIN other |->
        IF k \in DOMAIN other THEN other[k] ELSE config[k]]

\* str.split(sep) for a one-character sep: the text cut at every sep, the
\* separators dropped; n separators give n + 1 pieces
split(text, sep) ==
    LET cuts == { i \in 1..Len(text) : text[i] = sep }
        CutAt(k) ==
            IF k = 0 THEN 0
            ELSE IF k = Cardinality(cuts) + 1 THEN Len(text) + 1
            ELSE CHOOSE b \in cuts : Cardinality({ c \in cuts : c <= b }) = k
    IN  [k \in 1..(Cardinality(cuts) + 1) |->
            SubSeq(text, CutAt(k - 1) + 1, CutAt(k) - 1)]

\* env[env_var] is what os.environ.get(env_var) returns: None for a
\* variable that is not set
_load_from_env(config, env) ==
    [k \in DOMAIN config |->
        IF \E env_var \in DOMAIN env_mappings :
              /\ env_mappings[env_var] = k
              /\ env[env_var] # NoValue
              /\ env[env_var] # <<>>
        THEN LET env_var == CHOOSE v \in DOMAIN env_mappings :
                                env_mappings[v] = k
                 value == env[env_var]
             IN  IF k = "scopes"
                 THEN [i \in 1..Len(split(value, ",")) |->
                          Strip(split(value, ",")[i])]
                 ELSE value
        ELSE config[k]]

\* mutant: the file is read after the environment
_load_config_file_last(file, env) ==
    LET from_env == _load_from_env(DEFAULTS, env)
    IN  IF file.exists /\ file.parses
        THEN [raised |-> FALSE, config |-> update(from_env, file.json)]
        ELSE [raised |-> FALSE, config |-> from_env]

\* file is the config file that is given or found: [exists, parses, json],
\* parses when json.load and update succeed on it, json being the object
\* it holds.  A failure of either is caught and only printed.
_load_config(file, env) ==
    LET loaded ==
            IF file.exists /\ file.parses
            THEN update(DEFAULTS, file.json)
            ELSE DEFAULTS
    IN  [raised |-> FALSE, config |-> _load_from_env(loaded, env)]

----------------------------------------------------------------------------
(* calendar.py: CalendarClient.list_events.  A response of the server is   *)
(* [ok, json]: raise_for_status raises unless ok, json is the dictionary   *)
(* that response.json() returns.                                           *)

NextLink == "@odata.nextLink"

\* data.get("value", [])
ValueOf(data) == IF "value" \in DOMAIN data THEN data["value"] ELSE <<>>

\* raise Exception(f"Failed to retrieve calendar events: {e}")
Raised(requests, e) ==
    [raised |-> TRUE,
     message |-> <<"Failed to retrieve calendar events: ", e>>,
     requests |-> requests]

\* mutant: the next link is not followed
PageLoop_first_page_only(responses, i, data, fetched) ==
    [raised |-> FALSE, events |-> fetched, requests |-> i]

\* the while loop: data is the page of request i, fetched the events so far
RECURSIVE PageLoop(_, _, _, _)
PageLoop(responses, i, data, fetched) ==
    IF NextLink \in DOMAIN data
    THEN LET response == responses[i + 1]
         IN  IF ~response.ok
             THEN Raised(i + 1, "HTTPError")
             ELSE PageLoop(responses, i + 1, response.json,
                           fetched \o ValueOf(response.json))
    ELSE [raised |-> FALSE, events |-> fetched, requests |-> i]

list_events(responses) ==
    LET response == responses[1]
    IN  IF ~response.ok
        THEN Raised(1, "HTTPError")
        ELSE PageLoop(responses, 1, response.json, ValueOf(response.json))

----------------------------------------------------------------------------
(* utils.py: render_template.  The keyword arguments are the sequence of   *)
(* <<key, value>> pairs of kwargs.items(); a value is [str |-> text] or    *)
(* [int |-> n].                                                            *)

\* str(value)
Str(value) ==
    IF "int" \in DOMAIN value
    THEN <<CASE value.int = 0 -> "0" [] value.int = 7 -> "7">>
    ELSE value.str

\* str.replace(old, new) for a non-empty old: the occurrences of old are
\* found from left to right, none overlapping another, and the text that
\* replaces one is not searched again
RECURSIVE replace(_, _, _)
replace(text, old, new) ==
    IF Len(text) < Len(old) THEN text
    ELSE IF SubSeq(text, 1, Len(old)) = old
    THEN new \o replace(Drop(text, Len(old)), old, new)
    ELSE <<text[1]>> \o replace(Tail(text), old, new)

\* f"{{{key.upper()}}}", str.upper() character by character
Placeholder(key) ==
    LET Upper(c) == CASE c = "a" -> "A"
                      [] c = "b" -> "B"
                      [] OTHER -> c
    IN  <<"{">> \o [i \in 1..Len(key) |-> Upper(key[i])] \o <<"}">>

RECURSIVE RenderLoop(_, _)
RenderLoop(result, items) ==
    IF items = <<>> THEN result
    ELSE RenderLoop(replace(result, Placeholder(items[1][1]),
                            Str(items[1][2])),
                    Tail(items))

render_template(text, items) == RenderLoop(text, items)

\* no environment variable is set and there is no config.json
NoConfig ==
    /\ environ = [env_var \in DOMAIN env_mappings |-> NoValue]
    /\ config_file = [exists |-> FALSE, parses |-> FALSE, json |-> <<>>]

\* get_daily_meeting_hours is not running
NoLoop == loop = [pc |-> "idle"]

\* the server is not asked
NoPages == pages = <<>>

\* nothing is rendered
NoTemplate == template = <<>> /\ kwargs = <<>>

----------------------------------------------------------------------------
(* The time helpers applied to every reference instant *)

TimesOfDay == { <<0, 0, 0, 0>>, <<10, 30, 0, 0>>, <<23, 59, 59, 999999>> }

References ==
    { At(d, x[1], x[2], x[3], x[4]) : d \in 0..MaxDay, x \in TimesOfDay }

InitTime ==
    /\ reference \in References
    /\ events = <<>> /\ patterns = <<>> /\ window = <<DT(0, 0), DT(0, 0)>>
    /\ ignored_ids = <<>> /\ max_count = 0 /\ clock = DT(0, 0)
    /\ store = NoFile
    /\ call = NoCall /\ prev = NoCall
    /\ NoSession /\ NoLoop
    /\ NoConfig /\ NoPages /\ NoTemplate

CallWeekdayBounds ==
    /\ call' = [op |-> "get_weekday_bounds", reference_date |-> reference,
                result |-> get_weekday_bounds(reference)]
    /\ prev' = call
    /\ UNCHANGED <<inputs, clock, store, session, loop>>

CallNextWorkingDay ==
    /\ call' = [op |-> "get_next_working_day", reference_date |-> reference,
                result |-> get_next_working_day(reference)]
    /\ prev' = call
    /\ UNCHANGED <<inputs, clock, store, session, loop>>

NextTime == CallWeekdayBounds \/ CallNextWorkingDay

SpecTime == InitTime /\ [][NextTime]_vars

----------------------------------------------------------------------------
(* filter_event applied to one event, over every combination of the six    *)
(* conditions it tests *)

Subjects == { <<>>, <<"L", "u">>, <<"a">> }

PatternLists ==
    { <<>>,
      << <<"^", "l", "u">> >>,
      << <<"[">>, <<"u">> >>,
      << <<"a", ".", "*">>, <<"*">> >> }

FilterEvents ==
    { Event(s, ad, ca, re, se, sh, Local(9, 0, 0), Local(10, 0, 0),
            <<"u", "1">>, <<"i", "1">>) :
        s \in Subjects, ad \in BOOLEAN, ca \in BOOLEAN,
        re \in {"accepted", "declined"}, se \in {"normal", "private"},
        sh \in {"busy", "oof"} }

InitFilter ==
    /\ \E e \in FilterEvents : events = <<e>>
    /\ patterns \in PatternLists
    /\ reference = DT(0, 0) /\ window = <<DT(0, 0), DT(0, 0)>>
    /\ ignored_ids = <<>> /\ max_count = 0 /\ clock = DT(0, 0)
    /\ store = NoFile
    /\ call = NoCall /\ prev = NoCall
    /\ NoSession /\ NoLoop
    /\ NoConfig /\ NoPages /\ NoTemplate

CallFilterEvent ==
    /\ call' = [op |-> "filter_event", event |-> events[1],
                ignore_patterns |-> patterns,
                result |-> filter_event(events[1], patterns)]
    /\ prev' = call
    /\ UNCHANGED <<inputs, clock, store, session, loop>>

\* rule lists with an invalid rule before, behind and without a valid one;
\* "a*" matches every subject, the empty one too
RuleLists ==
    PatternLists
    \cup { << <<"*">>, <<"a", "*">> >>,
           << <<"u">>, <<"[">> >>,
           << <<"[">> >>,
           << <<"^", "*">>, <<"^", "l", "u">>, <<"*">> >> }

CallShouldIgnoreAppointment ==
    /\ \E rules \in RuleLists :
        call' = [op |-> "should_ignore_appointment",
                 subject |-> events[1].subject, patterns |-> rules,
                 result |-> should_ignore_appointment(events[1].subject,
                                                      rules)]
    /\ prev' = call
    /\ UNCHANGED <<inputs, clock, store, session, loop>>

NextFilter == CallFilterEvent \/ CallShouldIgnoreAppointment

SpecFilter == InitFilter /\ [][NextFilter]_vars

----------------------------------------------------------------------------
(* get_meeting_hours_summary applied to event lists and periods *)

SummaryPool ==
    { \* 09:00-10:00, sent in UTC with fractional seconds
      Meeting(<<"a">>, GraphDT(8 * 3600, 1230000, "UTC"),
              GraphDT(9 * 3600, 0, "UTC"), <<"u", "1">>, <<"i", "1">>),
      \* 09:30-11:00: overlaps the first
      Meeting(<<"a">>, Local(9, 30, 0), Local(11, 0, 0), <<"u", "2">>, <<>>),
      \* 08:00-09:30
      Meeting(<<"a">>, Local(8, 0, 0), Local(9, 30, 0), <<>>, <<"i", "3">>),
      \* 10:00-11:00, sent with a zone name ZoneInfo does not know
      Meeting(<<"a">>, GraphDT(9 * 3600, 0, "Mars/Phobos"),
              GraphDT(10 * 3600, 0, "Mars/Phobos"), <<>>, <<>>),
      \* 09:00-09:20, subject "Lu"
      Meeting(<<"L", "u">>, Local(9, 0, 0), Local(9, 20, 0), <<"u", "5">>, <<>>),
      \* 09:40-09:00: ends before it starts
      Meeting(<<"a">>, Local(9, 40, 0), Local(9, 0, 0), <<"u", "6">>, <<>>),
      \* 09:20-09:40, cancelled
      Event(<<"a">>, FALSE, TRUE, "accepted", "normal", "busy",
            Local(9, 20, 0), Local(9, 40, 0), <<"u", "7">>, <<>>),
      \* 09:00:10-09:00:00: ends 10 seconds before it starts
      Meeting(<<"a">>, Local(9, 0, 10), Local(9, 0, 0), <<"u", "8">>, <<>>),
      \* 09:10-09:10: ends when it starts
      Meeting(<<"a">>, Local(9, 10, 0), Local(9, 10, 0), <<"u", "9">>, <<>>) }

SummaryLists ==
    UNION { [1..n -> SummaryPool] : n \in 0..MaxSummaryEvents }

SummaryWindows ==
    { <<At(0, 0, 0, 0, 0), At(1, 0, 0, 0, 0)>>,
      <<At(0, 9, 0, 0, 0), At(0, 10, 0, 0, 0)>>,
      <<At(0, 0, 0, 0, 0), At(0, 23, 59, 59, 999999)>>,
      <<At(0, 10, 0, 0, 0), At(0, 9, 0, 0, 0)>>,
      <<At(0, 9, 0, 0, 0), At(0, 9, 0, 0, 0)>> }

InitSummary ==
    /\ events \in SummaryLists
    /\ window \in SummaryWindows
    /\ patterns \in { <<>>, << <<"[">>, <<"^", "l", "u">> >> }
    /\ reference = DT(0, 0)
    /\ ignored_ids = <<>> /\ max_count = 0 /\ clock = DT(0, 0)
    /\ store = NoFile
    /\ call = NoCall /\ prev = NoCall
    /\ NoSession /\ NoLoop
    /\ NoConfig /\ NoPages /\ NoTemplate

CallSummary ==
    /\ call' = [op |-> "get_meeting_hours_summary", events |-> events,
                start_date |-> window[1], end_date |-> window[2],
                ignore_patterns |-> patterns,
                result |-> get_meeting_hours_summary(events, window[1],
                                                     window[2], patterns)]
    /\ prev' = call
    /\ UNCHANGED <<inputs, clock, store, session, loop>>

\* line 280 for the first event of the list
CallAppointmentDuration ==
    /\ events # <<>>
    /\ LET event_start == from_graph_datetime(events[1].start)
           event_end == from_graph_datetime(events[1].end)
       IN  call' = [op |-> "get_appointment_duration",
                    start |-> event_start, end |-> event_end,
                    result |-> get_appointment_duration(event_start,
                                                        event_end)]
    /\ prev' = call
    /\ UNCHANGED <<inputs, clock, store, session, loop>>

NextSummary == CallSummary \/ CallAppointmentDuration

SpecSummary == InitSummary /\ [][NextSummary]_vars

----------------------------------------------------------------------------
(* get_daily_meeting_hours applied to event lists spread over two weeks *)

\* h:m of day d, written in the configured timezone
LocalOn(d, h, m) ==
    GraphDT(d * SecondsPerDay + h * 3600 + m * 60, 0, "Europe/Copenhagen")

DailyEvents ==
    << \* Monday 23:30 to Tuesday 00:30
       Meeting(<<"a">>, LocalOn(0, 23, 30), LocalOn(1, 0, 30), <<"d", "1">>, <<>>),
       \* Monday 23:30 UTC, which is Tuesday 00:30-01:00 in Copenhagen
       Meeting(<<"a">>, GraphDT(23 * 3600 + 1800, 0, "UTC"),
               GraphDT(24 * 3600, 0, "UTC"), <<"d", "2">>, <<>>),
       \* Friday 09:00-10:00, subject "Lu"
       Meeting(<<"L", "u">>, LocalOn(4, 9, 0), LocalOn(4, 10, 0), <<"d", "3">>, <<>>),
       \* Saturday 09:00-10:00
       Meeting(<<"a">>, LocalOn(5, 9, 0), LocalOn(5, 10, 0), <<"d", "4">>, <<>>),
       \* the next Monday 00:00-00:20
       Meeting(<<"a">>, LocalOn(7, 0, 0), LocalOn(7, 0, 20), <<"d", "5">>, <<>>),
       \* the next Monday 23:59:59 to Tuesday 01:00
       Meeting(<<"a">>,
               GraphDT(7 * SecondsPerDay + 23 * 3600 + 59 * 60 + 59, 0,
                       "Europe/Copenhagen"),
               LocalOn(8, 1, 0), <<"d", "6">>, <<>>) >>

DailyLists == { SubSeq(DailyEvents, k, Len(DailyEvents)) : k \in 1..(Len(DailyEvents) + 1) }

InitDaily ==
    /\ events \in DailyLists
    /\ reference \in References
    /\ max_count \in 0..MaxWorkingDays
    /\ patterns \in { <<>>, << <<"[">>, <<"^", "l", "u">> >> }
    /\ window = <<DT(0, 0), DT(0, 0)>>
    /\ ignored_ids = <<>> /\ clock = DT(0, 0)
    /\ store = NoFile
    /\ call = NoCall /\ prev = NoCall
    /\ NoSession /\ NoLoop
    /\ NoConfig /\ NoPages /\ NoTemplate

CallDailyMeetingHours ==
    /\ call' = [op |-> "get_daily_meeting_hours", events |-> events,
                start_date |-> reference, working_day_count |-> max_count,
                ignore_patterns |-> patterns,
                result |-> get_daily_meeting_hours(events, reference,
                                                   max_count, patterns)]
    /\ prev' = call
    /\ UNCHANGED <<inputs, clock, store, session, loop>>

NextDaily == CallDailyMeetingHours

SpecDaily == InitDaily /\ [][NextDaily]_vars

----------------------------------------------------------------------------
(* get_full_hour_meetings applied to event lists, while the clock runs *)

ScanPool ==
    { Meeting(<<"a">>, Local(14, 0, 0), Local(15, 0, 0), <<"u", "1">>, <<"i", "1">>),
      Meeting(<<"a">>, GraphDT(8 * 3600, 0, "UTC"), GraphDT(9 * 3600, 0, "UTC"),
              <<"u", "2">>, <<>>),
      Meeting(<<"a">>, Local(11, 0, 0), Local(12, 0, 0), <<>>, <<"i", "3">>),
      Meeting(<<"a">>, Local(11, 0, 0), Local(11, 30, 0), <<>>, <<>>),
      Meeting(<<"a">>, Local(8, 30, 0), Local(9, 0, 0), <<"u", "5">>, <<>>),
      Meeting(<<"a">>, Local(11, 0, 30), Local(12, 0, 30), <<"u", "6">>, <<>>),
      Event(<<"a">>, FALSE, TRUE, "accepted", "normal", "busy",
            Local(9, 30, 0), Local(10, 0, 0), <<"u", "7">>, <<>>),
      Meeting(<<"L", "u">>, Local(12, 0, 0), Local(13, 0, 0), <<"u", "8">>, <<>>) }

\* event lists without repetition
ScanLists ==
    { l \in UNION { [1..n -> ScanPool] : n \in 0..MaxScanEvents } :
        \A i, j \in 1..Len(l) : i # j => l[i] # l[j] }

ScanWindows ==
    { <<At(0, 8, 0, 0, 0), At(14, 0, 0, 0, 0)>>,
      <<At(0, 10, 0, 0, 0), At(0, 14, 0, 0, 0)>> }

\* what load_ignored_appointment_ids can return: stripped, non-empty lines
IgnoredLists ==
    { <<>>,
      << <<"u", "2">> >>,
      << <<"u", "1">>, <<"i", "3">>, <<"i", "1">> >> }

Clocks == { At(0, 8, 0, 0, 0), At(0, 9, 0, 0, 1) }

InitScan ==
    /\ events \in ScanLists
    /\ window \in ScanWindows
    /\ patterns = << <<"^", "l", "u">> >>
    /\ ignored_ids \in IgnoredLists
    /\ max_count \in 0..MaxCount
    /\ clock = At(0, 8, 0, 0, 0)
    /\ reference = DT(0, 0)
    /\ store = NoFile
    /\ call = NoCall /\ prev = NoCall
    /\ NoSession /\ NoLoop
    /\ NoConfig /\ NoPages /\ NoTemplate

\* time passes
Tick ==
    /\ \E later \in Clocks : Before(clock, later) /\ clock' = later
    /\ UNCHANGED <<inputs, store, call, prev, session, loop>>

CallFullHourMeetings ==
    /\ call' = [op |-> "get_full_hour_meetings", events |-> events,
                start_date |-> window[1], end_date |-> window[2],
                ignore_patterns |-> patterns, ignored_ids |-> ignored_ids,
                max_count |-> max_count, now |-> clock,
                result |-> get_full_hour_meetings(events, window[1], window[2],
                                                  patterns, ignored_ids,
                                                  max_count, clock)]
    /\ prev' = call
    /\ UNCHANGED <<inputs, clock, store, session, loop>>

NextScan == Tick \/ CallFullHourMeetings

SpecScan == InitScan /\ [][NextScan]_vars

----------------------------------------------------------------------------
(* The ignore store: entries are appended to a file that the program made  *)
(* or that was edited by hand, and the file is loaded, while the clock     *)
(* runs.                                                                   *)

\* made by hand: a comment, a blank line, a padded identity and a last
\* line that ends with "\n"
EditedFile ==
    [exists |-> TRUE,
     text |-> <<"#", "c", "\n", "\n", " ", "a", " ", "\n", "x", "\n">>]

\* made by hand: the last line does not end with "\n"
EditedFileNoNewline ==
    [exists |-> TRUE, text |-> <<"#", "c", "\n", "x">>]

\* ChunkSize lines "a", then a line with an undecodable byte, then "z"
UndecodableFile ==
    [exists |-> TRUE,
     text |-> [i \in 1..(2 * ChunkSize) |-> IF i % 2 = 1 THEN "a" ELSE "\n"]
              \o <<Undecodable, "\n", "z", "\n">>]

\* an undecodable byte in the first chunk
UndecodableShortFile ==
    [exists |-> TRUE, text |-> <<"a", "\n", Undecodable, "\n">>]

StoreFiles ==
    { NoFile, [exists |-> TRUE, text |-> <<>>], EditedFile,
      EditedFileNoNewline, UndecodableFile }

\* ignore_appointments.txt: a comment, a valid and an invalid pattern
PatternFiles ==
    { NoFile, [exists |-> TRUE, text |-> <<>>], UndecodableFile,
      UndecodableShortFile,
      [exists |-> TRUE,
       text |-> <<"#", "c", "\n", "^", "l", "u", "\n", "[", "\n">>] }

StoreIdentities == { <<"a">>, <<"b">>, <<"#", "4">> }

\* subject and start of the meeting that is answered
StoreMeetings ==
    { [subject |-> <<"s">>, start |-> At(0, 9, 0, 0, 0)],
      [subject |-> <<"L", "u">>, start |-> At(1, 14, 0, 0, 0)] }

\* the entries appended so far: the "# Added: " in the text
EntriesAdded(file) ==
    Cardinality({ i \in 1..Len(file.text) :
                    /\ i + Len(AddedPrefix) - 1 <= Len(file.text)
                    /\ SubSeq(file.text, i, i + Len(AddedPrefix) - 1)
                         = AddedPrefix })

InitStore ==
    /\ store \in StoreFiles
    /\ clock = At(0, 8, 0, 0, 0)
    /\ events = <<>> /\ patterns = <<>>
    /\ reference = DT(0, 0) /\ window = <<DT(0, 0), DT(0, 0)>>
    /\ ignored_ids = <<>> /\ max_count = 0
    /\ call = NoCall /\ prev = NoCall
    /\ NoSession /\ NoLoop
    /\ NoConfig /\ NoPages /\ NoTemplate

CallSaveIgnoredAppointment ==
    /\ EntriesAdded(store) < MaxSaves
    /\ \E identifier \in StoreIdentities, meeting \in StoreMeetings :
        /\ store' = save_ignored_appointment(store, identifier,
                                             meeting.subject, meeting.start,
                                             clock)
        /\ call' = [op |-> "save_ignored_appointment",
                    identifier |-> identifier, subject |-> meeting.subject,
                    start_time |-> meeting.start, now |-> clock,
                    before |-> store, after |-> store']
    /\ prev' = call
    /\ UNCHANGED <<inputs, clock, session, loop>>

CallLoadIgnoredAppointmentIds ==
    /\ call' = [op |-> "load_ignored_appointment_ids", file |-> store,
                result |-> load_ignored_appointment_ids(store)]
    /\ prev' = call
    /\ UNCHANGED <<inputs, clock, store, session, loop>>

CallLoadIgnorePatterns ==
    /\ \E file \in PatternFiles :
        call' = [op |-> "load_ignore_patterns", file |-> file,
                 result |-> load_ignore_patterns(file)]
    /\ prev' = call
    /\ UNCHANGED <<inputs, clock, store, session, loop>>

NextStore ==
    \/ Tick
    \/ CallSaveIgnoredAppointment
    \/ CallLoadIgnoredAppointmentIds
    \/ CallLoadIgnorePatterns

SpecStore == InitStore /\ [][NextStore]_vars

----------------------------------------------------------------------------
(* get_daily_meeting_hours step by step: one action for each iteration of  *)
(* its while loop.  The code runs in one thread, so a step that can be     *)
(* taken is taken.                                                         *)

InitDailyLoop ==
    /\ events \in { <<>>, DailyEvents }
    /\ reference \in References
    /\ max_count \in -1..MaxWorkingDays
    /\ patterns = <<>>
    /\ window = <<DT(0, 0), DT(0, 0)>>
    /\ ignored_ids = <<>> /\ clock = DT(0, 0)
    /\ store = NoFile
    /\ call = NoCall /\ prev = NoCall
    /\ NoSession /\ NoLoop
    /\ NoConfig /\ NoPages /\ NoTemplate

\* lines 55-57
EnterDailyMeetingHours ==
    /\ loop.pc = "idle"
    /\ loop' = [pc |-> "while", current_date |-> reference,
                working_days_found |-> 0, daily_hours |-> <<>>]
    /\ UNCHANGED <<inputs, clock, store, call, prev, session>>

\* lines 59-84
IterateDailyMeetingHours ==
    /\ loop.pc = "while"
    /\ loop.working_days_found < max_count
    /\ loop' = DailyStep(events, loop, patterns)
    /\ UNCHANGED <<inputs, clock, store, call, prev, session>>

\* line 86
ReturnDailyMeetingHours ==
    /\ loop.pc = "while"
    /\ ~(loop.working_days_found < max_count)
    /\ loop' = [loop EXCEPT !.pc = "done"]
    /\ call' = [op |-> "get_daily_meeting_hours", events |-> events,
                start_date |-> reference, working_day_count |-> max_count,
                ignore_patterns |-> patterns,
                result |-> loop.daily_hours]
    /\ prev' = call
    /\ UNCHANGED <<inputs, clock, store, session>>

NextDailyLoop ==
    \/ EnterDailyMeetingHours
    \/ IterateDailyMeetingHours
    \/ ReturnDailyMeetingHours

SpecDailyLoop ==
    InitDailyLoop /\ [][NextDailyLoop]_vars /\ WF_vars(NextDailyLoop)

----------------------------------------------------------------------------
(* main's periods and summaries (lines 467-525) for every now *)

InitPeriods ==
    /\ reference \in References
    /\ events \in DailyLists
    /\ patterns \in { <<>>, << <<"[">>, <<"^", "l", "u">> >> }
    /\ window = <<DT(0, 0), DT(0, 0)>>
    /\ ignored_ids = <<>> /\ max_count = 0
    /\ clock = reference
    /\ store = NoFile
    /\ call = NoCall /\ prev = NoCall
    /\ NoSession /\ NoLoop
    /\ NoConfig /\ NoPages /\ NoTemplate

\* now = datetime.now(tz) is the reference; events is what list_events
\* returned
CallMainSummaries ==
    /\ call' = [op |-> "main_summaries", now |-> reference,
                events |-> events, ignore_patterns |-> patterns,
                periods |-> main_periods(reference),
                summaries |-> main_summaries(events, reference, patterns)]
    /\ prev' = call
    /\ UNCHANGED <<inputs, clock, store, session, loop>>

NextPeriods == CallMainSummaries

SpecPeriods == InitPeriods /\ [][NextPeriods]_vars

----------------------------------------------------------------------------
(* list_events against every short sequence of responses *)

\* the server answers at most MaxPages requests
MaxPages == 3

\* every response the server may give: a failure, or a page with or without
\* 'value' and with or without a next link; the answer to the last request
\* that the server can get has no next link
ResponseLists ==
    LET PageValues == { <<>>, <<"m1">>, <<"m2", "m3">> }
        Link == NextLink :> "https://graph.microsoft.com/v1.0/me/calendarView?$skip=2"
        PageData ==
            { "value" :> v : v \in PageValues }
                \cup { ("value" :> v) @@ Link : v \in PageValues }
                \cup { <<>>, Link }
        Responses ==
            { [ok |-> FALSE, json |-> <<>>] }
                \cup { [ok |-> TRUE, json |-> data] : data \in PageData }
    IN  { r \in UNION { [1..n -> Responses] : n \in 1..MaxPages } :
            ~r[Len(r)].ok \/ NextLink \notin DOMAIN r[Len(r)].json }

InitPages ==
    /\ pages \in ResponseLists
    /\ clock = At(0, 8, 0, 0, 0)
    /\ store = NoFile
    /\ events = <<>> /\ patterns = <<>>
    /\ reference = DT(0, 0) /\ window = <<DT(0, 0), DT(0, 0)>>
    /\ ignored_ids = <<>> /\ max_count = 0
    /\ call = NoCall /\ prev = NoCall
    /\ NoSession /\ NoLoop
    /\ NoConfig /\ NoTemplate

\* calendar_client.list_events(start_date, end_date)
CallListEvents ==
    /\ call' = [op |-> "list_events", responses |-> pages,
                result |-> list_events(pages)]
    /\ prev' = call
    /\ UNCHANGED <<inputs, clock, store, session, loop>>

NextPages == CallListEvents

SpecPages == InitPages /\ [][NextPages]_vars

----------------------------------------------------------------------------
(* render_template on templates with none, one and both placeholders *)

Templates ==
    { <<>>,
      <<"{", "A", "}">>,
      <<"x", "{", "A", "}", "y", "{", "A", "}">>,
      <<"{", "A", "}", "{", "B", "}">>,
      <<"{", "B", "}", " ", "{", "A", "}">>,
      <<"{", "{", "A", "}", "}">>,
      <<"{", "{", "A", "}", "B", "}">>,
      <<"{", "a", "}", "{", "C", "}">>,
      <<"{", "A">> }

\* no keyword is given twice
KeywordLists ==
    LET Values ==
            { [str |-> <<>>], [str |-> <<"v">>], [str |-> <<"B">>],
              [str |-> <<"{", "B", "}">>], [str |-> <<"{", "A", "}">>],
              [int |-> 7] }
        Keywords == { <<"a">>, <<"b">> } \X Values
    IN  { <<>> }
            \cup { <<item>> : item \in Keywords }
            \cup { items \in { <<first, second>> :
                                   first \in Keywords, second \in Keywords } :
                      items[1][1] # items[2][1] }

InitRender ==
    /\ template \in Templates
    /\ kwargs \in KeywordLists
    /\ clock = At(0, 8, 0, 0, 0)
    /\ store = NoFile
    /\ events = <<>> /\ patterns = <<>>
    /\ reference = DT(0, 0) /\ window = <<DT(0, 0), DT(0, 0)>>
    /\ ignored_ids = <<>> /\ max_count = 0
    /\ call = NoCall /\ prev = NoCall
    /\ NoSession /\ NoLoop
    /\ NoConfig /\ NoPages

\* render_template(template, **kwargs)
CallRenderTemplate ==
    /\ call' = [op |-> "render_template", template |-> template,
                kwargs |-> kwargs,
                result |-> render_template(template, kwargs)]
    /\ prev' = call
    /\ UNCHANGED <<inputs, clock, store, session, loop>>

NextRender == CallRenderTemplate

SpecRender == InitRender /\ [][NextRender]_vars

----------------------------------------------------------------------------
(* Config built from every environment and every config file *)

Environs ==
    [GRAPH_TENANT_ID : {NoValue, <<>>, <<"t">>},
     GRAPH_CLIENT_ID : {NoValue, <<"c">>},
     GRAPH_SCOPES : {NoValue, <<"a", ",", " ", "b">>, <<"a", ",", ",">>},
     TIMEZONE : {NoValue, <<"U", "T", "C">>}]

ConfigFiles ==
    { [exists |-> FALSE, parses |-> FALSE, json |-> <<>>],
      \* "{ invalid json }"
      [exists |-> TRUE, parses |-> FALSE, json |-> <<>>],
      \* "{}"
      [exists |-> TRUE, parses |-> TRUE, json |-> <<>>],
      [exists |-> TRUE, parses |-> TRUE,
       json |-> [tenant_id |-> <<"f">>, client_id |-> <<"g">>,
                 timezone |-> <<"z">>]],
      [exists |-> TRUE, parses |-> TRUE,
       json |-> [client_id |-> NoValue, scopes |-> <<>>,
                 api_version |-> <<"b", "e", "t", "a">>]] }

InitConfig ==
    /\ environ \in Environs
    /\ config_file \in ConfigFiles
    /\ clock = At(0, 8, 0, 0, 0)
    /\ store = NoFile
    /\ events = <<>> /\ patterns = <<>>
    /\ reference = DT(0, 0) /\ window = <<DT(0, 0), DT(0, 0)>>
    /\ ignored_ids = <<>> /\ max_count = 0
    /\ call = NoCall /\ prev = NoCall
    /\ NoSession /\ NoLoop
    /\ NoPages /\ NoTemplate

\* Config(config_file)
CallConfig ==
    /\ call' = [op |-> "Config", environ |-> environ,
                config_file |-> config_file,
                result |-> _load_config(config_file, environ)]
    /\ prev' = call
    /\ UNCHANGED <<inputs, clock, store, session, loop>>

NextConfig == CallConfig

SpecConfig == InitConfig /\ [][NextConfig]_vars

----------------------------------------------------------------------------
(* main of show_meeting_summary.py, run again and again on one calendar    *)
(* and one config directory.  A run is StartRun (everything up to the      *)
(* first dialog) and then one Answer for each meeting shown.               *)

MainPool ==
    { Meeting(<<"a">>, Local(14, 0, 0), Local(15, 0, 0), <<"u", "1">>, <<"i", "1">>),
      Meeting(<<"a">>, Local(11, 0, 0), Local(12, 0, 0), <<>>, <<"i", "3">>),
      \* an iCalendar UID is any text: one that starts with "#"
      Meeting(<<"a">>, Local(12, 0, 0), Local(13, 0, 0), <<"#", "4">>, <<>>),
      \* no iCalUId and no id
      Meeting(<<"a">>, Local(13, 0, 0), Local(14, 0, 0), <<>>, <<>>),
      \* not on the full hour
      Meeting(<<"a">>, Local(13, 30, 0), Local(14, 0, 0), <<"u", "5">>, <<>>) }

MainLists ==
    { l \in UNION { [1..n -> MainPool] : n \in 0..MaxMainEvents } :
        \A i, j \in 1..Len(l) : i # j => l[i] # l[j] }

\* max_count=10 at the call in main
MainMaxCount == 10

Init ==
    /\ events \in MainLists
    /\ patterns = << <<"^", "l", "u">> >>
    /\ clock = At(0, 8, 0, 0, 0)
    /\ store = NoFile
    /\ reference = DT(0, 0) /\ window = <<DT(0, 0), DT(0, 0)>>
    /\ ignored_ids = <<>> /\ max_count = MainMaxCount
    /\ call = NoCall /\ prev = NoCall
    /\ NoSession /\ NoLoop
    /\ NoConfig /\ NoPages /\ NoTemplate

\* lines 467-538: the periods, the fetch, the summaries, the ignore list
\* and the scan.  inner is what datetime.now() returns inside
\* get_full_hour_meetings, not before main's own now.
StartRun ==
    /\ pc = "idle"
    /\ runs < MaxRuns
    /\ \E inner \in Clocks :
        /\ NotAfter(clock, inner)
        /\ LET now == clock
               today == Replace(now, 0, 0, 0, 0)
               fourteen_days_later == AddDays(today, 14)
               loaded == load_ignored_appointment_ids(store)
               scan == get_full_hour_meetings(events, now, fourteen_days_later,
                                              patterns, loaded, max_count,
                                              inner)
           IN  /\ ignored_ids' = loaded
               /\ window' = <<now, fourteen_days_later>>
               /\ queue' = scan.full_hour_meetings
               /\ pc' = IF scan.full_hour_meetings = <<>>
                        THEN "idle" ELSE "prompting"
               /\ call' = [op |-> "main", events |-> events,
                           start_date |-> now,
                           end_date |-> fourteen_days_later,
                           ignore_patterns |-> patterns,
                           ignored_ids |-> loaded, max_count |-> max_count,
                           now |-> inner, result |-> scan,
                           periods |-> main_periods(now),
                           summaries |-> main_summaries(events, now, patterns),
                           \* the identities saved by earlier answers
                           never |-> never]
               /\ clock' = inner
    /\ prev' = call
    /\ runs' = runs + 1
    /\ UNCHANGED <<reference, events, patterns, max_count, store, never,
                   environ, config_file, pages, template, kwargs, loop>>

\* lines 541-567: the user answers the dialog for the first meeting left
Answer ==
    /\ pc = "prompting"
    /\ \E user_choice \in {"CreateDraft", "Skip", "NeverAskAgain"} :
        LET meeting == events[Head(queue)]
            meeting_start == from_graph_datetime(meeting.start)
            event_id == EventId(meeting)
        IN  /\ IF user_choice = "NeverAskAgain" /\ event_id # <<>>
               THEN /\ store' = save_ignored_appointment(store, event_id,
                                                         meeting.subject,
                                                         meeting_start, clock)
                    /\ never' = never \cup {event_id}
               ELSE UNCHANGED <<store, never>>
            /\ call' = [op |-> "answer", user_choice |-> user_choice,
                        meeting |-> meeting, events |-> events,
                        ignore_patterns |-> patterns,
                        before |-> store, after |-> store']
    /\ prev' = call
    /\ queue' = Tail(queue)
    /\ pc' = IF Tail(queue) = <<>> THEN "idle" ELSE "prompting"
    /\ UNCHANGED <<inputs, clock, runs, loop>>

Next == Tick \/ StartRun \/ Answer

Spec == Init /\ [][Next]_vars

----------------------------------------------------------------------------
(* Claims *)

\* C1: filter_event reports the first of the six conditions that holds, in
\* the order pattern, all-day, cancelled, declined, private, out of office,
\* and None when none holds.
C1_FilterPrecedence ==
    call.op = "filter_event" =>
        LET e == call.event
            p == call.ignore_patterns
            conds == << \E i \in 1..Len(p) :
                            ~re_error(p[i]) /\ re_search(p[i], e.subject),
                        e.isAllDay,
                        e.isCancelled,
                        e.responseStatus.response = "declined",
                        e.sensitivity = "private",
                        e.showAs = "oof" >>
            reasons == << "Matches ignore pattern", "All-day event",
                          "Meeting cancelled", "Meeting declined",
                          "Private event", "Out of Office" >>
            holding == { k \in 1..6 : conds[k] }
        IN  IF holding = {} THEN call.result = None
            ELSE \E k \in holding :
                    /\ \A j \in holding : k <= j
                    /\ call.result = reasons[k]

\* an all-day event whose subject also matches a pattern has been classified
C1_Witness ==
    /\ call.op = "filter_event"
    /\ call.event.isAllDay
    /\ call.event.isCancelled
    /\ call.result = "Matches ignore pattern"

\* C9: get_weekday_bounds returns a Monday at 00:00:00.000000 and a Friday
\* at 23:59:59.999999 that lie 4 days + 23:59:59.999999 apart.
C9_WeekdayBounds ==
    call.op = "get_weekday_bounds" =>
        LET monday == call.result[1]
            friday == call.result[2]
        IN  /\ Weekday(monday) = 0
            /\ monday.t % SecondsPerDay = 0 /\ monday.us = 0
            /\ Weekday(friday) = 4
            /\ friday.t % SecondsPerDay = 23 * 3600 + 59 * 60 + 59
            /\ friday.us = 999999
            /\ friday.t - monday.t = 4 * SecondsPerDay + 23 * 3600 + 59 * 60 + 59
            /\ friday.us - monday.us = 999999

\* the bounds of a Wednesday afternoon reference have been computed
C9_Witness ==
    /\ call.op = "get_weekday_bounds"
    /\ Weekday(call.reference_date) = 2
    /\ call.reference_date.t % SecondsPerDay = 10 * 3600 + 30 * 60

\* C10: a Saturday reference gives the Monday 2 days later, a Sunday
\* reference the Monday 1 day later, a Monday-Friday reference the Monday
\* of its own week.
C10_WeekChoice ==
    call.op = "get_weekday_bounds" =>
        LET ref_day == call.reference_date.t \div SecondsPerDay
            monday_day == call.result[1].t \div SecondsPerDay
            wd == ref_day % 7
        IN  /\ wd = 5 => monday_day = ref_day + 2
            /\ wd = 6 => monday_day = ref_day + 1
            /\ wd \in 0..4 => monday_day = ref_day - wd

\* the bounds of a Sunday reference have been computed: the upcoming Monday
C10_Witness ==
    /\ call.op = "get_weekday_bounds"
    /\ Weekday(call.reference_date) = 6
    /\ Before(call.reference_date, call.result[1])

\* the sum of f over the finite set S
RECURSIVE SumOver(_, _)
SumOver(S, f) ==
    IF S = {} THEN 0
    ELSE LET x == CHOOSE y \in S : TRUE
         IN  f[x] + SumOver(S \ {x}, f)

\* the wall-clock second at which the i-th event of the call starts, ends
StartSecond(i) ==
    LET o == call.events[i].start
    IN  o.dateTime.t + (IF o.timeZone = "Europe/Copenhagen" THEN 0 ELSE 3600)

EndSecond(i) ==
    LET o == call.events[i].end
    IN  o.dateTime.t + (IF o.timeZone = "Europe/Copenhagen" THEN 0 ELSE 3600)

\* the i-th event of the call starts in [start_date, end_date)
StartsInPeriod(i) ==
    LET s == StartSecond(i)
        a == call.start_date
        b == call.end_date
    IN  /\ a.t < s \/ (a.t = s /\ a.us = 0)
        /\ s < b.t \/ (s = b.t /\ 0 < b.us)

\* the i-th event's duration in hundredths of an hour, to the nearest
Hundredths(i) ==
    LET d == EndSecond(i) - StartSecond(i)
    IN  CHOOSE h \in (d \div 36)..(d \div 36 + 1) :
            36 * h - 18 < d /\ d < 36 * h + 18

\* C2: count is the number of events that start in the period and that
\* filter_event includes, hours is the sum of their durations; excluded
\* events add nothing, overlapping events each count in full, and the empty
\* list gives 0 hours and 0 events.
C2_SummaryAdditive ==
    call.op = "get_meeting_hours_summary" =>
        LET included == { i \in 1..Len(call.events) :
                            /\ StartsInPeriod(i)
                            /\ filter_event(call.events[i],
                                            call.ignore_patterns) = None }
            hundredths == [i \in 1..Len(call.events) |-> Hundredths(i)]
        IN  /\ call.result.count = Cardinality(included)
            /\ call.result.hours = SumOver(included, hundredths)
            /\ call.events = <<>> =>
                    call.result = [hours |-> 0, count |-> 0]

\* 09:00-10:00 and 09:30-11:00 overlap and are counted with 2.5 hours, next
\* to an excluded event that adds nothing
C2_Witness ==
    /\ call.op = "get_meeting_hours_summary"
    /\ Len(call.events) = 3
    /\ StartSecond(1) = 9 * 3600 /\ EndSecond(1) = 10 * 3600
    /\ StartSecond(2) = 9 * 3600 + 1800 /\ EndSecond(2) = 11 * 3600
    /\ call.events[3].isCancelled
    /\ call.result = [hours |-> 250, count |-> 2]

\* C3: membership is decided by the start alone and the period is
\* half-open: only events with start_date <= start < end_date are counted,
\* each with its full duration whatever its end, and a period with
\* end_date <= start_date gives count 0 and hours 0.
C3_HalfOpenOnStart ==
    call.op = "get_meeting_hours_summary" =>
        LET n == Len(call.events)
            a == call.start_date
            b == call.end_date
            inside == { i \in 1..n : StartsInPeriod(i) }
            all_included ==
                \A i \in 1..n :
                    filter_event(call.events[i], call.ignore_patterns) = None
            hundredths == [i \in 1..n |-> Hundredths(i)]
        IN  /\ call.result.count <= Cardinality(inside)
            /\ all_included =>
                    /\ call.result.count = Cardinality(inside)
                    /\ call.result.hours = SumOver(inside, hundredths)
            /\ (b.t < a.t \/ (b.t = a.t /\ b.us <= a.us)) =>
                    call.result = [hours |-> 0, count |-> 0]

\* period 09:00-10:00: the event 08:00-09:30 and the event starting at 10:00
\* are left out, the event 09:30-11:00 is counted with its 1.5 hours
C3_Witness ==
    /\ call.op = "get_meeting_hours_summary"
    /\ call.start_date = At(0, 9, 0, 0, 0)
    /\ call.end_date = At(0, 10, 0, 0, 0)
    /\ Len(call.events) = 3
    /\ StartSecond(1) = 8 * 3600 /\ EndSecond(1) = 9 * 3600 + 1800
    /\ StartSecond(2) = 10 * 3600
    /\ StartSecond(3) = 9 * 3600 + 1800 /\ EndSecond(3) = 11 * 3600
    /\ call.result = [hours |-> 150, count |-> 1]

\* the identity of the i-th event of the call: its iCalUId, else its id
Identity(i) ==
    LET e == call.events[i]
    IN  IF Len(e.iCalUId) > 0 THEN e.iCalUId ELSE e.id

\* the outcome the i-th event of a get_full_hour_meetings call must get
ExpectedOutcome(i) ==
    LET e == call.events[i]
        s == StartSecond(i)
        reason == filter_event(e, call.ignore_patterns)
    IN  IF reason # None
        THEN CASE reason = "Matches ignore pattern" -> "Ignored"
               [] reason = "All-day event" -> "AllDay"
               [] reason = "Meeting cancelled" -> "Cancelled"
               [] reason = "Meeting declined" -> "Declined"
               [] reason = "Private event" -> "Private"
               [] reason = "Out of Office" -> "OutOfOffice"
        ELSE IF s < call.now.t \/ (s = call.now.t /\ 0 < call.now.us)
        THEN "AlreadyStarted"
        ELSE IF s % 3600 # 0 THEN "NotFullHour"
        ELSE IF \E k \in 1..Len(call.ignored_ids) :
                    call.ignored_ids[k] = Identity(i)
        THEN "PreviouslyIgnored"
        ELSE "accepted"

TallyKeys ==
    {"Ignored", "AllDay", "Private", "OutOfOffice", "AlreadyStarted",
     "NotFullHour", "Cancelled", "Declined", "PreviouslyIgnored"}

\* C4: every event that starts in the window gets exactly one outcome, in
\* the order exclusion reason, AlreadyStarted, NotFullHour,
\* PreviouslyIgnored, accepted; so the tallies and the accepted events add
\* up to the events in the window.
C4_OneOutcomePerEvent ==
    call.op = "get_full_hour_meetings" =>
        LET inside == { i \in 1..Len(call.events) : StartsInPeriod(i) }
            tally == call.result.skipped_reasons
            accepted == call.result.appended
            ones == [k \in TallyKeys |-> tally[k]]
        IN  /\ \A k \in TallyKeys :
                 tally[k] = Cardinality({ i \in inside : ExpectedOutcome(i) = k })
            /\ { accepted[j] : j \in 1..Len(accepted) }
                 = { i \in inside : ExpectedOutcome(i) = "accepted" }
            /\ Len(accepted)
                 = Cardinality({ i \in inside : ExpectedOutcome(i) = "accepted" })
            /\ SumOver(TallyKeys, ones) + Len(accepted) = Cardinality(inside)

\* at 09:00:00.000001 the meeting of 08:30 has started and is not on a full
\* hour: it is tallied AlreadyStarted, and NotFullHour stays 0
C4_Witness ==
    /\ call.op = "get_full_hour_meetings"
    /\ call.now = At(0, 9, 0, 0, 1)
    /\ \E i \in 1..Len(call.events) :
            StartsInPeriod(i) /\ StartSecond(i) = 8 * 3600 + 1800
    /\ call.result.skipped_reasons.AlreadyStarted = 1
    /\ call.result.skipped_reasons.NotFullHour = 0
    /\ Len(call.result.appended) = 2

\* C5: the returned list is the first max_count elements of the stable
\* ascending sort by start of the accepted events: it is cut after the
\* sort, equal starts keep their input order, and it has at most max_count
\* elements.
C5_SortThenCut ==
    call.op = "get_full_hour_meetings" =>
        LET r == call.result.full_hour_meetings
            acc == call.result.appended
            accepted == { acc[j] : j \in 1..Len(acc) }
            returned == { r[j] : j \in 1..Len(r) }
            \* i goes before j in the stable order
            Precedes(i, j) ==
                \/ StartSecond(i) < StartSecond(j)
                \/ StartSecond(i) = StartSecond(j) /\ i < j
        IN  /\ Len(r) = IF Len(acc) < call.max_count
                        THEN Len(acc) ELSE call.max_count
            /\ returned \subseteq accepted
            /\ \A j, k \in 1..Len(r) : j < k => Precedes(r[j], r[k])
            /\ \A x \in accepted \ returned :
                    \A j \in 1..Len(r) : Precedes(r[j], x)

\* accepted in the order 14:00, 09:00, 11:00 with max_count 2: the result
\* is 09:00, 11:00
C5_Witness ==
    /\ call.op = "get_full_hour_meetings"
    /\ call.max_count = 2
    /\ call.result.appended = <<1, 2, 3>>
    /\ StartSecond(1) = 14 * 3600
    /\ StartSecond(2) = 9 * 3600
    /\ StartSecond(3) = 11 * 3600
    /\ call.result.full_hour_meetings = <<2, 3>>

\* C6: every returned event is an element of the input that starts in the
\* window on minute 0 and second 0, has no exclusion reason, has not
\* started before now, and has an identity that is not among the ignored
\* identities.
C6_CandidatesAreSound ==
    call.op = "get_full_hour_meetings" =>
        \A j \in 1..Len(call.result.full_hour_meetings) :
            LET i == call.result.full_hour_meetings[j]
            IN  /\ i \in 1..Len(call.events)
                /\ StartsInPeriod(i)
                /\ (StartSecond(i) \div 60) % 60 = 0
                /\ StartSecond(i) % 60 = 0
                /\ filter_event(call.events[i], call.ignore_patterns) = None
                /\ \/ StartSecond(i) > call.now.t
                   \/ StartSecond(i) = call.now.t /\ call.now.us = 0
                /\ \A k \in 1..Len(call.ignored_ids) :
                        call.ignored_ids[k] # Identity(i)

\* a scan with ignored identities has returned one event and has left out
\* an event whose identity is ignored
C6_Witness ==
    /\ call.op = "get_full_hour_meetings"
    /\ Len(call.result.full_hour_meetings) = 1
    /\ call.result.skipped_reasons.PreviouslyIgnored = 1
    /\ call.result.skipped_reasons.NotFullHour = 1

\* C8: two calls of get_full_hour_meetings with identical events, window,
\* rules, ignored identities and max_count return identical lists and
\* tallies, whenever they run.
C8_SameInputsSameResult ==
    ( /\ call.op = "get_full_hour_meetings"
      /\ prev.op = "get_full_hour_meetings"
      /\ call.events = prev.events
      /\ call.start_date = prev.start_date
      /\ call.end_date = prev.end_date
      /\ call.ignore_patterns = prev.ignore_patterns
      /\ call.ignored_ids = prev.ignored_ids
      /\ call.max_count = prev.max_count )
    => call.result = prev.result

\* C7: once the user has answered NeverAskAgain for a meeting with a
\* non-empty identity, no later run of main shows a meeting with that
\* identity.
C7_NeverAskedAgain ==
    call.op = "main" =>
        \A j \in 1..Len(call.result.full_hour_meetings) :
            Identity(call.result.full_hour_meetings[j]) \notin call.never

\* an identity that load_ignored_appointment_ids returns as it was saved
WellFormed(identity) ==
    /\ identity # <<>>
    /\ identity[1] \notin {"#", " ", "\n", "\t", "\r"}
    /\ identity[Len(identity)] \notin {" ", "\n", "\t", "\r"}
    /\ \A k \in 1..Len(identity) : identity[k] # "\n"

\* C7, for the identities that survive the store's line format: this part
\* of the claim holds in every run
C7_WellFormedNeverAskedAgain ==
    call.op = "main" =>
        \A j \in 1..Len(call.result.full_hour_meetings) :
            LET identity == Identity(call.result.full_hour_meetings[j])
            IN  WellFormed(identity) => identity \notin call.never

----------------------------------------------------------------------------
(* get_next_working_day *)

\* C11: get_next_working_day returns 00:00:00.000000 of a day that is not a
\* Saturday or Sunday: the reference's date + 3 days for a Friday, + 2 for
\* a Saturday, + 1 for a Sunday and + 1 for Monday to Thursday.
C11_NextWorkingDay ==
    call.op = "get_next_working_day" =>
        LET ref_day == call.reference_date.t \div SecondsPerDay
            res_day == call.result.t \div SecondsPerDay
            wd == ref_day % 7
        IN  /\ call.result.t % SecondsPerDay = 0 /\ call.result.us = 0
            /\ res_day % 7 \notin {5, 6}
            /\ wd = 4 => res_day = ref_day + 3
            /\ wd = 5 => res_day = ref_day + 2
            /\ wd = 6 => res_day = ref_day + 1
            /\ wd \in 0..3 => res_day = ref_day + 1

\* the next working day of a Friday 23:59:59.999999 has been computed
C11_Witness ==
    /\ call.op = "get_next_working_day"
    /\ Weekday(call.reference_date) = 4
    /\ call.reference_date.us = 999999
    /\ Weekday(call.result) = 0

----------------------------------------------------------------------------
(* get_daily_meeting_hours *)

\* the days from the start date's day to day d that are not Saturday or Sunday
WorkingDaysUpTo(d) ==
    { x \in (call.start_date.t \div SecondsPerDay)..d : x % 7 \notin {5, 6} }

\* C12: get_daily_meeting_hours returns exactly working_day_count entries,
\* none dated on a Saturday or Sunday; the k-th entry is the k-th day from
\* the start date on that is not a Saturday or Sunday (weekend days use up
\* no slot), and its hours and count are those of get_meeting_hours_summary
\* over that day from 00:00:00 to 23:59:59.999999.
C12_DailyEntries ==
    call.op = "get_daily_meeting_hours" =>
        /\ Len(call.result) = call.working_day_count
        /\ \A k \in 1..Len(call.result) :
              LET entry == call.result[k]
                  d == entry.date.t \div SecondsPerDay
                  day == get_meeting_hours_summary(call.events,
                             At(d, 0, 0, 0, 0), At(d, 23, 59, 59, 999999),
                             call.ignore_patterns)
              IN  /\ d % 7 \notin {5, 6}
                  /\ entry.date = At(d, 0, 0, 0, 0)
                  /\ Cardinality(WorkingDaysUpTo(d)) = k
                  /\ entry.hours = day.hours
                  /\ entry.count = day.count

\* five days from a Friday afternoon on have been summarised: the Friday,
\* then the Monday after the weekend with its two meetings
C12_Witness ==
    /\ call.op = "get_daily_meeting_hours"
    /\ call.start_date = At(4, 10, 30, 0, 0)
    /\ call.working_day_count = 5
    /\ Len(call.events) = Len(DailyEvents)
    /\ call.result[1].count = 1
    /\ call.result[2].date = At(7, 0, 0, 0, 0)
    /\ call.result[2].count = 2
    /\ call.result[5].date = At(10, 0, 0, 0, 0)

----------------------------------------------------------------------------
(* The ignore store *)

\* how often x occurs in list
Count(list, x) == Cardinality({ k \in 1..Len(list) : list[k] = x })

\* the last two calls appended the same identity, one after the other
SameIdentityTwice ==
    /\ call.op = "save_ignored_appointment"
    /\ prev.op = "save_ignored_appointment"
    /\ prev.identifier = call.identifier
    /\ prev.after = call.before

\* the physical lines of a file that hold exactly the identity
IdentityLines(file, identity) ==
    Count(SplitLines(file.text), identity \o <<"\n">>)

\* every byte of the file can be decoded
Decodable(file) == \A i \in 1..Len(file.text) : file.text[i] # Undecodable

ContentOf(file) == IF file.exists THEN file.text ELSE <<>>

\* head is how text begins
StartsWith(text, head) ==
    Len(head) <= Len(text) /\ SubSeq(text, 1, Len(head)) = head

\* what the last save_ignored_appointment call wrote behind the old content
Written ==
    SubSeq(call.after.text, Len(ContentOf(call.before)) + 1,
           Len(call.after.text))

C15_OnlyIdentityDecides ==
    call.op = "save_ignored_appointment" =>
        load_ignored_appointment_ids(call.after)
            = Append(load_ignored_appointment_ids(call.before),
                     call.identifier)

\* the comment line that save_ignored_appointment writes for the last call
CommentLine ==
    AddedPrefix \o StrfSeconds(call.now) \o SubjectPrefix \o call.subject
        \o StartPrefix \o StrfMinutes(call.start_time) \o <<"\n">>

\* C16: each save_ignored_appointment call adds exactly two lines at the
\* end of the store (behind the header when the call creates the file): the
\* comment line "# Added: <timestamp> | Subject: <subject> | Start: <start>"
\* and, right behind it, one line that holds the bare identity; the lines
\* before them are the lines the store had.
C16_TwoLinesAdded ==
    call.op = "save_ignored_appointment" =>
        LET old_lines == SplitLines(IF call.before.exists
                                    THEN call.before.text ELSE Header)
            new_lines == SplitLines(call.after.text)
            n == Len(new_lines)
        IN  /\ n = Len(old_lines) + 2
            /\ SubSeq(new_lines, 1, n - 2) = old_lines
            /\ new_lines[n - 1] = CommentLine
            /\ new_lines[n] = call.identifier \o <<"\n">>

\* C17: load_ignored_appointment_ids and load_ignore_patterns return the
\* empty list when the file is missing, empty or cannot be decoded, and
\* otherwise the stripped lines that are not empty and do not start with
\* "#", in file order.
C17_BadFileIsEmpty ==
    call.op \in {"load_ignored_appointment_ids", "load_ignore_patterns"} =>
        LET lines == SplitLines(call.file.text)
            stripped == [k \in 1..Len(lines) |-> Strip(lines[k])]
        IN  IF ~call.file.exists \/ call.file.text = <<>>
               \/ ~Decodable(call.file)
            THEN call.result = <<>>
            ELSE call.result
                   = SelectSeq(stripped,
                               LAMBDA line : line # <<>> /\ line[1] # "#")

\* C17, for the files that can be decoded: this part of the claim holds
C17_DecodableFileIsRead ==
    (/\ call.op \in {"load_ignored_appointment_ids", "load_ignore_patterns"}
     /\ Decodable(call.file)) => C17_BadFileIsEmpty

----------------------------------------------------------------------------
(* should_ignore_appointment *)

----------------------------------------------------------------------------
(* Inverted and zero-length events *)

\* the events of the call without the i-th
WithoutEvent(i) ==
    SubSeq(call.events, 1, i - 1)
        \o SubSeq(call.events, i + 1, Len(call.events))

\* the summary of the call's period for the events without the i-th
SummaryWithout(i) ==
    get_meeting_hours_summary(WithoutEvent(i), call.start_date,
                              call.end_date, call.ignore_patterns)

\* the i-th event of the call ends before it starts, starts in the period
\* and is included
InvertedIncluded(i) ==
    /\ EndSecond(i) < StartSecond(i)
    /\ StartsInPeriod(i)
    /\ filter_event(call.events[i], call.ignore_patterns) = None

\* C19 as stated: get_appointment_duration returns a negative value when
\* end < start and 0 when end = start; an included in-window event with
\* end < start lowers hours and still adds 1 to count.
C19_InvertedIsNegative ==
    /\ call.op = "get_appointment_duration" =>
          /\ Before(call.end, call.start) => call.result < 0
          /\ call.end = call.start => call.result = 0
    /\ call.op = "get_meeting_hours_summary" =>
          \A i \in 1..Len(call.events) :
              InvertedIncluded(i) =>
                  /\ call.result.hours < SummaryWithout(i).hours
                  /\ call.result.hours
                       = SummaryWithout(i).hours + Hundredths(i)
                  /\ call.result.count = SummaryWithout(i).count + 1

\* C19, amended: get_appointment_duration returns a value that is never
\* clamped or rejected but is rounded to 2 places: at most 0 when
\* end < start, negative exactly when the event is inverted by 18 seconds
\* or more, and 0 when end = start; an included in-window event with
\* end < start adds that rounded duration to hours (which lowers them
\* unless it rounds to 0) and still adds 1 to count.
C19_InvertedIsRounded ==
    /\ call.op = "get_appointment_duration" =>
          /\ Before(call.end, call.start) =>
                /\ call.result <= 0
                /\ call.result < 0 <=> call.start.t - call.end.t >= 18
                /\ 36 * call.result - 18 < call.end.t - call.start.t
                /\ call.end.t - call.start.t < 36 * call.result + 18
          /\ call.end = call.start => call.result = 0
    /\ call.op = "get_meeting_hours_summary" =>
          \A i \in 1..Len(call.events) :
              InvertedIncluded(i) =>
                  /\ Hundredths(i) <= 0
                  /\ call.result.hours
                       = SummaryWithout(i).hours + Hundredths(i)
                  /\ call.result.count = SummaryWithout(i).count + 1

\* a period's only included event runs from 09:40 to 09:00: -0.67 hours and
\* 1 event
C19_Witness ==
    /\ call.op = "get_meeting_hours_summary"
    /\ Len(call.events) = 2
    /\ InvertedIncluded(1)
    /\ call.events[2].isCancelled
    /\ call.result = [hours |-> 0 - 67, count |-> 1]

----------------------------------------------------------------------------
(* Rounding of the summary *)

\* seconds as hundredths of an hour, to the nearest
NearestHundredth(seconds) ==
    CHOOSE h \in (seconds \div 36)..(seconds \div 36 + 1) :
        36 * h - 18 <= seconds /\ seconds < 36 * h + 18

\* C20: the hours of get_meeting_hours_summary are the exact sum of
\* end - start over the included events that start in the period, rounded
\* to 2 places once, on the total.
C20_RoundedOnceOnTotal ==
    call.op = "get_meeting_hours_summary" =>
        LET included == { i \in 1..Len(call.events) :
                            /\ StartsInPeriod(i)
                            /\ filter_event(call.events[i],
                                            call.ignore_patterns) = None }
            seconds == [i \in 1..Len(call.events) |->
                            EndSecond(i) - StartSecond(i)]
        IN  call.result.hours = NearestHundredth(SumOver(included, seconds))

\* three included 20-minute events have been summed: the exact total is 1
\* hour
C20_ThreeTwentyMinuteEvents ==
    /\ call.op = "get_meeting_hours_summary"
    /\ Len(call.events) = 3
    /\ call.result.count = 3
    /\ \A i \in 1..3 : EndSecond(i) - StartSecond(i) = 20 * 60

\* what the code returns for them: 0.99
C20_ThreeTwentyMinuteEventsGive99 ==
    C20_ThreeTwentyMinuteEvents => call.result.hours = 99

----------------------------------------------------------------------------
(* The empty identity *)

\* the i-th event of the call has neither an iCalUId nor an id
NoIdentity(i) == call.events[i].iCalUId = <<>> /\ call.events[i].id = <<>>

\* the i-th event of a main call starts in this week's bounds
StartsThisWeek(i) ==
    LET s == StartSecond(i)
        b == call.periods.this_week_bounds
    IN  /\ b[1].t <= s
        /\ s < b[2].t \/ (s = b[2].t /\ 0 < b[2].us)

\* text ends with tail
EndsWith(text, tail) ==
    /\ Len(tail) <= Len(text)
    /\ SubSeq(text, Len(text) - Len(tail) + 1, Len(text)) = tail

\* C21: an event with neither a non-empty iCalUId nor a non-empty id has
\* the empty identity.  A NeverAskAgain answer for it leaves the ignore
\* store as it is, while for any other event it appends the iCalUId when
\* that is non-empty and the id otherwise; in every run of main such an
\* event is never tallied PreviouslyIgnored (it is shown whenever it is an
\* included full-hour meeting that has not started) and it is counted by
\* get_meeting_hours_summary like any other event.
C21_EmptyIdentity ==
    /\ (call.op = "answer" /\ call.user_choice = "NeverAskAgain") =>
          LET m == call.meeting
              identity == IF m.iCalUId # <<>> THEN m.iCalUId ELSE m.id
          IN  IF m.iCalUId = <<>> /\ m.id = <<>>
              THEN call.after = call.before
              ELSE /\ call.after # call.before
                   /\ EndsWith(call.after.text, <<"\n">> \o identity \o <<"\n">>)
    /\ call.op = "main" =>
          /\ \A i \in 1..Len(call.events) :
                (NoIdentity(i) /\ StartsInPeriod(i)) =>
                    /\ Identity(i) = <<>>
                    /\ ExpectedOutcome(i) \in {"accepted", "PreviouslyIgnored"}
                          => Contains(call.result.full_hour_meetings, i)
          /\ call.result.skipped_reasons["PreviouslyIgnored"]
               = Cardinality({ i \in 1..Len(call.events) :
                                 /\ StartsInPeriod(i)
                                 /\ ~NoIdentity(i)
                                 /\ ExpectedOutcome(i) = "PreviouslyIgnored" })
          /\ call.summaries.this_week_hours.count
               = Cardinality({ i \in 1..Len(call.events) :
                                 /\ StartsThisWeek(i)
                                 /\ filter_event(call.events[i],
                                                 call.ignore_patterns) = None })

\* the meeting without iCalUId and id was answered NeverAskAgain: nothing
\* was appended to a store that holds an earlier entry
C21_Witness ==
    /\ call.op = "answer"
    /\ call.user_choice = "NeverAskAgain"
    /\ call.meeting.iCalUId = <<>> /\ call.meeting.id = <<>>
    /\ call.before.exists
    /\ call.after = call.before

\* main ran a second time after that answer and shows the meeting again,
\* counted in this week's summary
C21_ShownAgain ==
    /\ call.op = "main" /\ prev.op = "answer"
    /\ prev.user_choice = "NeverAskAgain"
    /\ prev.meeting.iCalUId = <<>> /\ prev.meeting.id = <<>>
    /\ \E i \in 1..Len(call.events) :
          /\ NoIdentity(i)
          /\ Contains(call.result.full_hour_meetings, i)
    /\ call.summaries.this_week_hours.count = Len(call.events)

----------------------------------------------------------------------------
(* What main leaves alone *)

\* C22: no step of main (the summaries, the daily summaries and the scan
\* with their filter_event calls, the dialog answers) changes the fetched
\* event list or the rule list, and the ignore store changes only with a
\* NeverAskAgain answer, and then by exactly one entry: a comment line and
\* an identity line behind the old content.
C22_InputsAndStoreAreKept ==
    [][/\ events' = events
       /\ patterns' = patterns
       /\ store' # store =>
             LET base == IF store.exists THEN store.text ELSE Header
             IN  /\ call'.op = "answer"
                 /\ call'.user_choice = "NeverAskAgain"
                 /\ StartsWith(store'.text, base)
                 /\ EntriesAdded(store') = EntriesAdded(store) + 1
                 /\ Len(SplitLines(store'.text)) = Len(SplitLines(base)) + 2
       /\ (call'.op = "main" /\ call' # call) =>
             /\ store' = store
             /\ call'.events = events /\ call'.ignore_patterns = patterns
      ]_vars

\* a second entry was appended by a NeverAskAgain answer, after a run of
\* main that left the store with its first entry
C22_Witness ==
    /\ call.op = "answer"
    /\ call.user_choice = "NeverAskAgain"
    /\ EntriesAdded(call.before) = 1
    /\ EntriesAdded(call.after) = 2
    /\ store = call.after
    /\ events = call.events


----------------------------------------------------------------------------
(* C23: the precedence of the configuration sources *)

\* the pieces between the commas of a text, read character by character
RECURSIVE CommaPieces(_, _)
CommaPieces(text, piece) ==
    IF text = <<>> THEN <<piece>>
    ELSE IF text[1] = "," THEN <<piece>> \o CommaPieces(Tail(text), <<>>)
    ELSE CommaPieces(Tail(text), Append(piece, text[1]))

EnvVarOf(key) == CHOOSE env_var \in DOMAIN env_mappings : env_mappings[env_var] = key

EnvIsSet(env, key) == env[EnvVarOf(key)] # NoValue /\ env[EnvVarOf(key)] # <<>>

FileHas(file, key) == file.exists /\ file.parses /\ key \in DOMAIN file.json

C23_InvalidFileWitness ==
    /\ call.op = "Config"
    /\ call.config_file.exists /\ ~call.config_file.parses
    /\ \A env_var \in DOMAIN env_mappings : call.environ[env_var] = NoValue
    /\ call.result.config = DEFAULTS

----------------------------------------------------------------------------
(* C24: pagination of list_events *)

\* the request whose answer ends the pagination: the first that fails or
\* carries no next link
LastRequest(responses) ==
    CHOOSE n \in 1..Len(responses) :
        /\ ~responses[n].ok \/ NextLink \notin DOMAIN responses[n].json
        /\ \A i \in 1..(n - 1) :
              responses[i].ok /\ NextLink \in DOMAIN responses[i].json

RECURSIVE ValuesUpTo(_, _)
ValuesUpTo(responses, n) ==
    IF n = 0 THEN <<>>
    ELSE ValuesUpTo(responses, n - 1)
            \o (IF "value" \in DOMAIN responses[n].json
                THEN responses[n].json["value"] ELSE <<>>)

\* C24: list_events makes one request per page, as long as the last answer
\* has '@odata.nextLink', and returns the pages' 'value' lists concatenated
\* in page order; when a request fails it raises an exception whose message
\* starts with 'Failed to retrieve calendar events' and returns no list
C24_PagesInOrderOrFailure ==
    call.op = "list_events" =>
        LET n == LastRequest(call.responses)
            result == call.result
        IN  /\ result.requests = n
            /\ IF ~call.responses[n].ok
               THEN /\ result.raised
                    /\ result.message[1] = "Failed to retrieve calendar events: "
                    /\ "events" \notin DOMAIN result
               ELSE /\ ~result.raised
                    /\ result.events = ValuesUpTo(call.responses, n)

\* two pages are fetched and a third answer is never asked for
C24_Witness ==
    /\ call.op = "list_events"
    /\ ~call.result.raised
    /\ call.result.requests = 2
    /\ Len(call.responses) = 3
    /\ call.result.events = <<"m2", "m3", "m1">>

\* the second request fails after a first page with events
C24_FailureWitness ==
    /\ call.op = "list_events"
    /\ call.result.raised
    /\ call.result.requests = 2
    /\ call.responses[1].json["value"] = <<"m1">>

----------------------------------------------------------------------------
(* C25: render_template substitutes literally *)

\* the keyword whose placeholder begins the text, <<>> when there is none
PlaceholderAt(text, items) ==
    LET found == { i \in 1..Len(items) :
                     /\ Len(Placeholder(items[i][1])) <= Len(text)
                     /\ SubSeq(text, 1, Len(Placeholder(items[i][1])))
                            = Placeholder(items[i][1]) }
    IN  IF found = {} THEN <<>> ELSE items[CHOOSE i \in found : TRUE]

\* every placeholder of the template replaced by its value, the rest of
\* the template copied
RECURSIVE Substituted(_, _)
Substituted(text, items) ==
    IF text = <<>> THEN <<>>
    ELSE LET item == PlaceholderAt(text, items)
         IN  IF item = <<>>
             THEN <<text[1]>> \o Substituted(Tail(text), items)
             ELSE Str(item[2])
                    \o Substituted(Drop(text, Len(Placeholder(item[1]))), items)

\* C25: render_template replaces every occurrence of '{KEY}' in the
\* template by str(value), by literal substitution, and leaves every other
\* placeholder verbatim
C25_LiteralSubstitution ==
    call.op = "render_template" =>
        call.result = Substituted(call.template, call.kwargs)

\* with one keyword the substitution is literal
C25_OneKeywordIsLiteral ==
    (call.op = "render_template" /\ Len(call.kwargs) <= 1) =>
        call.result = Substituted(call.template, call.kwargs)

\* a value that holds the placeholder of a later keyword is rendered too
C25_ValueIsRenderedAgain ==
    /\ call.op = "render_template"
    /\ call.template = <<"{", "A", "}">>
    /\ call.kwargs = << <<<<"a">>, [str |-> <<"{", "B", "}">>]>>,
                        <<<<"b">>, [str |-> <<"v">>]>> >>
    /\ call.result = <<"v">>

----------------------------------------------------------------------------
(* C26: the range main fetches and the windows it evaluates *)

\* the windows of the summaries and of the scan, each <<start, end>>
WindowsOf(main) ==
    LET p == main.periods
        daily == main.summaries.daily_hours
    IN  [today |-> <<p.today, p.next_working_day>>,
         next_working_day |-> <<p.next_working_day, p.day_after_next>>,
         this_week |-> p.this_week_bounds,
         next_week |-> p.next_week_bounds,
         scan |-> <<main.now, p.fourteen_days_later>>,
         daily |-> [i \in 1..Len(daily) |->
                      <<daily[i].date,
                        Replace(daily[i].date, 23, 59, 59, 999999)>>]]

\* the window lies in [fetch_start, fetch_end + 1 day)
Fetched(main, w) ==
    /\ NotAfter(main.periods.fetch_start, w[1])
    /\ NotAfter(w[2], AddDays(main.periods.fetch_end, 1))

\* C26: for every now the requested range [today 00:00, fetch_end + 1 day)
\* is a superset of every window that main evaluates: Today, Next Working
\* Day, This Week, Next Week, the five daily windows and the scan window
C26_FetchCoversEveryWindow ==
    call.op = "main_summaries" =>
        LET w == WindowsOf(call)
        IN  /\ Fetched(call, w.today)
            /\ Fetched(call, w.next_working_day)
            /\ Fetched(call, w.this_week)
            /\ Fetched(call, w.next_week)
            /\ Fetched(call, w.scan)
            /\ Len(w.daily) = 5
            /\ \A i \in 1..Len(w.daily) : Fetched(call, w.daily[i])

\* every window but This Week is fetched, and This Week is when now is a
\* Monday, a Saturday or a Sunday
C26_AllButThisWeek ==
    call.op = "main_summaries" =>
        LET w == WindowsOf(call)
        IN  /\ Fetched(call, w.today)
            /\ Fetched(call, w.next_working_day)
            /\ Fetched(call, w.next_week)
            /\ Fetched(call, w.scan)
            /\ Len(w.daily) = 5
            /\ \A i \in 1..Len(w.daily) : Fetched(call, w.daily[i])
            /\ Weekday(call.now) \in {0, 5, 6} <=> Fetched(call, w.this_week)

\* on a Wednesday the week's Monday is evaluated and not fetched
C26_MondayNotFetched ==
    /\ call.op = "main_summaries"
    /\ Weekday(call.now) = 2
    /\ call.periods.this_week_bounds[1] = AddDays(call.periods.fetch_start, -2)

----------------------------------------------------------------------------
(* C27: get_daily_meeting_hours terminates *)

\* the iterations since the last entry was produced (since the start when
\* there is none)
IdleIterations ==
    DayOf(loop.current_date)
        - (IF loop.daily_hours = <<>> THEN DayOf(reference)
           ELSE DayOf(loop.daily_hours[Len(loop.daily_hours)].date) + 1)

\* an iteration advances the date by one day and produces at most one
\* entry; at most two iterations in a row produce none; the loop is left as
\* soon as working_day_count entries are there, at once for a count <= 0;
\* the result is that of get_daily_meeting_hours
C27_LoopState ==
    loop.pc \in {"while", "done"} =>
        /\ IdleIterations \in 0..2
        /\ loop.working_days_found = Len(loop.daily_hours)
        /\ loop.working_days_found <= (IF max_count < 0 THEN 0 ELSE max_count)
        /\ loop.pc = "done" =>
            /\ Len(loop.daily_hours) = (IF max_count < 0 THEN 0 ELSE max_count)
            /\ IdleIterations = 0
            /\ call.result = loop.daily_hours
            /\ call.result = get_daily_meeting_hours(events, reference,
                                                     max_count, patterns)

C27_Iteration ==
    (loop.pc = "while" /\ loop'.pc = "while") =>
        /\ loop'.current_date = AddDays(loop.current_date, 1)
        /\ \/ loop'.daily_hours = loop.daily_hours
           \/ /\ Len(loop'.daily_hours) = Len(loop.daily_hours) + 1
              /\ SubSeq(loop'.daily_hours, 1, Len(loop.daily_hours))
                    = loop.daily_hours

\* C27: get_daily_meeting_hours terminates for every start date and every
\* working_day_count: each iteration advances the current date by one
\* calendar day, at most two iterations in a row produce no entry, and the
\* loop stops as soon as working_day_count entries are produced, at once
\* and with an empty result when working_day_count <= 0
C27_Terminates ==
    /\ []C27_LoopState
    /\ [][C27_Iteration]_vars
    /\ <>(loop.pc = "done")

\* five entries are produced from a Saturday on, in nine iterations
C27_Witness ==
    /\ loop.pc = "done"
    /\ Weekday(reference) = 5
    /\ max_count = 5
    /\ Len(loop.daily_hours) = 5
    /\ DayOf(loop.current_date) = DayOf(reference) + 7

\* nothing is produced for a negative count
C27_NegativeCountWitness ==
    /\ loop.pc = "done"
    /\ max_count = -1
    /\ loop.daily_hours = <<>>
    /\ loop.current_date = reference

----------------------------------------------------------------------------
(* C28: get_weekday_bounds on its own week *)

\* C28: for a reference r from Monday to Friday with bounds (m, f),
\* m <= r <= f and get_weekday_bounds(x) = (m, f) for every x with
\* m <= x <= f; for a Saturday or Sunday r < m; main's next-week bounds
\* start exactly 7 days after this week's Monday
C28_BoundsOfOwnWeek ==
    call.op = "main_summaries" =>
        LET r == call.now
            m == call.periods.this_week_bounds[1]
            f == call.periods.this_week_bounds[2]
        IN  /\ call.periods.this_week_bounds = get_weekday_bounds(r)
            /\ IF Weekday(r) \in 0..4
               THEN /\ NotAfter(m, r) /\ NotAfter(r, f)
                    /\ \A x \in References \cup {m, f} :
                          (NotAfter(m, x) /\ NotAfter(x, f)) =>
                              get_weekday_bounds(x) = <<m, f>>
               ELSE Before(r, m)
            /\ call.periods.next_week_bounds[1] = AddDays(m, 7)
            /\ call.periods.next_week_bounds
                  = <<AddDays(m, 7), AddDays(f, 7)>>

\* a Friday 23:59:59.999999 is the end of its own week
C28_Witness ==
    /\ call.op = "main_summaries"
    /\ Weekday(call.now) = 4
    /\ call.now = call.periods.this_week_bounds[2]
    /\ DayOf(call.periods.next_week_bounds[1]) = DayOf(call.now) + 3

\* a Sunday lies before the bounds it gets
C28_WeekendWitness ==
    /\ call.op = "main_summaries"
    /\ Weekday(call.now) = 6
    /\ Before(call.now, call.periods.this_week_bounds[1])
    /\ DayOf(call.periods.next_week_bounds[1]) = DayOf(call.now) + 8

----------------------------------------------------------------------------
(* C29: the days of get_daily_meeting_hours *)

\* C29: the entries are consecutive working days in strictly increasing
\* order: the first is the day of the start date when that is a Monday to
\* Friday and the following Monday otherwise, and the date of every later
\* entry is get_next_working_day of the date of the entry before it
C29_ConsecutiveWorkingDays ==
    call.op = "get_daily_meeting_hours" =>
        LET entries == call.result
            start == call.start_date
        IN  /\ entries # <<>> =>
                entries[1].date =
                    IF Weekday(start) \in 0..4
                    THEN Replace(start, 0, 0, 0, 0)
                    ELSE Replace(AddDays(start, 7 - Weekday(start)), 0, 0, 0, 0)
            /\ \A i \in 2..Len(entries) :
                  /\ entries[i].date = get_next_working_day(entries[i - 1].date)
                  /\ Before(entries[i - 1].date, entries[i].date)

\* five entries from a Sunday on: Monday to Friday of the week after
C29_Witness ==
    /\ call.op = "get_daily_meeting_hours"
    /\ Weekday(call.start_date) = 6
    /\ Len(call.result) = 5
    /\ DayOf(call.result[1].date) = DayOf(call.start_date) + 1
    /\ DayOf(call.result[5].date) = DayOf(call.start_date) + 5

\* entries that bridge a weekend, from a start date with a time of day
C29_WeekendWitness ==
    /\ call.op = "get_daily_meeting_hours"
    /\ Weekday(call.start_date) = 3
    /\ call.start_date # Replace(call.start_date, 0, 0, 0, 0)
    /\ Len(call.result) = 3
    /\ DayOf(call.result[3].date) = DayOf(call.start_date) + 4

----------------------------------------------------------------------------
(* C30: the Today summary and the first daily summary *)

SameAsFirstDay(main) ==
    /\ main.summaries.daily_hours # <<>>
    /\ main.summaries.today_hours.hours = main.summaries.daily_hours[1].hours
    /\ main.summaries.today_hours.count = main.summaries.daily_hours[1].count

\* C30: whenever today is a Monday to Friday, the Today summary (over
\* [today 00:00, next working day 00:00)) reports the same hours and count
\* as the first of the five daily summaries (today 00:00:00 to
\* 23:59:59.999999), for every fetched event list with whole-second starts
C30_TodayIsFirstDay ==
    (call.op = "main_summaries" /\ Weekday(call.now) \in 0..4) =>
        SameAsFirstDay(call)

\* from Monday to Thursday the two summaries agree
C30_MondayToThursday ==
    (call.op = "main_summaries" /\ Weekday(call.now) \in 0..3) =>
        SameAsFirstDay(call)

\* on a Friday the Today summary counts the Saturday's meeting
C30_FridayCountsSaturday ==
    /\ call.op = "main_summaries"
    /\ Weekday(call.now) = 4
    /\ call.ignore_patterns = <<>>
    /\ call.summaries.today_hours.count = 2
    /\ call.summaries.daily_hours[1].count = 1
    /\ call.summaries.daily_hours[1].date = call.periods.today
=============================================================================
